---------------------------- MODULE Spec2Model ----------------------------
(***************************************************************************)
(* A model of the WB core library (src/unnamed/part_000): the catalog      *)
(* page walk fetchProductCards with normalizeProducts and selectPhotoUrl,  *)
(* the feedback merge latestByDate with fetchLatestReviews and             *)
(* fetchAllQuestions, the key/value store with its in-process fallback,    *)
(* and of the CSV writer toCsv (src/api/_lib/csv.js).                      *)
(*                                                                         *)
(* JavaScript values are tagged records, strings are sequences of          *)
(* one-character tokens, so that String(), Number(), trim(), startsWith()  *)
(* and localeCompare() are computed and not assumed.                       *)
(***************************************************************************)
EXTENDS Integers, Sequences, FiniteSets, TLC

VARIABLES
    fpcPc,            \* fetchProductCards: "start" | "await" | "returned" | "thrown"
    pageSize,         \* option pageSize
    maxItems,         \* option maxItems
    cursorUpdatedAt,  \* let cursorUpdatedAt
    cursorNmId,       \* let cursorNmId
    cards,            \* const cards = []
    request,          \* the page request in flight (settings.cursor of its body)
    nRequests,        \* number of page requests issued so far
    nResponses,       \* number of page responses handled so far
    payload,          \* the page response handled last
    fpcResult,        \* what the call returned (a product list) or threw
    normCards,        \* normalizeProducts: the caller's array `cards`
    seen,             \* normalizeProducts: const seen = new Set()
    normCalls,        \* normalizeProducts: the outputs of the calls made so far
    photoCard,        \* selectPhotoUrl: the card
    photoResult,      \* selectPhotoUrl: <<>> before the call, <<value>> after
    rows,             \* latestByDate: the merged rows
    limit,            \* latestByDate: limit
    lbdResult,        \* latestByDate: <<>> before the call, <<list>> after
    fbCall,           \* "reviews" (fetchLatestReviews) | "questions" (fetchAllQuestions)
    fbNmId,           \* argument nmId
    fbLimit,          \* argument limit
    fbPc,             \* "start" | "await" | "returned" | "thrown"
    fbRequests,       \* the source requests issued so far, in order
    fbOutcomes,       \* for each request: pending, failed, or the batch it gave
    fbPartition,      \* fetchAllQuestions: the loop running, "unanswered" | "answered"
    fbSkip,           \* fetchAllQuestions: let skip
    fbItems,          \* fetchAllQuestions: const items = []
    fbResult,         \* <<>> until the call returns, then <<list>>
    fbSettled,        \* the places in fbRequests of the fetches settled, in the order they settled
    wkNmId,           \* fetchAllQuestions with items kept by their number: nmId
    wkLimit,          \* argument limit
    wkPc,             \* "start" | "await" | "returned" | "thrown"
    wkPartition,      \* the loop running, "unanswered" | "answered"
    wkSkip,           \* let skip
    wkTotal,          \* items.length
    wkRequest,        \* <<>>, or the request awaited
    wkLastPage,       \* <<>>, or the request answered last with its batch.length
    wkIssued,         \* the number of requests issued so far in either loop
    kvUrl,            \* store: process.env.KV_REST_API_URL is set
    kvToken,          \* store: process.env.KV_REST_API_TOKEN is set
    memoryStore,      \* const memoryStore = new Map()
    remoteStore,      \* what the KV backend holds
    storeLog,         \* the store calls made so far, each with what it returned
    csvRows,          \* toCsv: rows
    csvResult,         \* toCsv: <<>> before the call, <<text>> after
    escValue,         \* csvEscape: value
    escResult,        \* csvEscape: <<>> before the call, <<text>> after
    flatRow,          \* flattenRow: obj
    flatResult,        \* flattenRow: <<>> before the call, <<output>> after
    vfInitData,       \* verifyInitData: <<initData>>
    vfBotToken,       \* argument botToken
    vfMaxAge,         \* argument maxAgeSeconds, undefined when left out
    vfNow,            \* Math.floor(Date.now() / 1000)
    vfResult,          \* <<>> before the call, <<result>> after
    hdHandler,        \* the handler: "questions" (download) | "send" (send to chat)
    hdMethod,         \* req.method
    hdBody,           \* req.body: [initData, nmId, type]
    hdPc,             \* "start" | "awaitKv" | "awaitSeller" | "awaitTelegram" | "done"
    hdCalls,          \* the network calls issued so far, in order
    hdResponse,        \* <<>>, or the response sent: <<[status, error]>>
    apInitData,       \* App: telegram.initData is not empty
    apPc,             \* "mount" | "idle" | the await the running operation stands at
    apOp,             \* the operation running, "none" when none is
    loading,          \* const [loading, setLoading]
    needsToken,       \* const [needsToken, setNeedsToken]
    selected,         \* a product is selected
    apEnded           \* the operations ended so far, each with how it ended

catalogVars == <<fpcPc, pageSize, maxItems, cursorUpdatedAt, cursorNmId, cards,
                 request, nRequests, nResponses, payload, fpcResult>>
normVars == <<normCards, seen, normCalls>>
photoVars == <<photoCard, photoResult>>
lbdVars == <<rows, limit, lbdResult>>
feedbackVars == <<fbCall, fbNmId, fbLimit, fbPc, fbRequests, fbOutcomes, fbPartition,
                  fbSkip, fbItems, fbResult, fbSettled>>
walkVars == <<wkNmId, wkLimit, wkPc, wkPartition, wkSkip, wkTotal, wkRequest, wkLastPage, wkIssued>>
storeVars == <<kvUrl, kvToken, memoryStore, remoteStore, storeLog>>
csvVars == <<csvRows, csvResult>>
cellVars == <<escValue, escResult, flatRow, flatResult>>
verifyVars == <<vfInitData, vfBotToken, vfMaxAge, vfNow, vfResult>>
handlerVars == <<hdHandler, hdMethod, hdBody, hdPc, hdCalls, hdResponse>>
appVars == <<apInitData, apPc, apOp, loading, needsToken, selected, apEnded>>
restVars == <<feedbackVars, walkVars, storeVars, csvVars, cellVars, verifyVars, handlerVars, appVars>>
vars == <<catalogVars, normVars, photoVars, lbdVars, restVars>>

(***************************************************************************)
(* JavaScript values                                                       *)
(***************************************************************************)
Undefined == [t |-> "undefined", n |-> 0, s |-> <<>>]
Null == [t |-> "null", n |-> 0, s |-> <<>>]
Bool(b) == [t |-> "boolean", n |-> IF b THEN 1 ELSE 0, s |-> <<>>]
NaN == [t |-> "nan", n |-> 0, s |-> <<>>]
Num(k) == [t |-> "number", n |-> k, s |-> <<>>]
Str(cs) == [t |-> "string", n |-> 0, s |-> cs]

IsString(v) == v.t = "string"

\* ToBoolean: undefined, null, 0, NaN and "" are falsy.
Truthy(v) ==
    CASE v.t = "undefined" -> FALSE
      [] v.t = "null" -> FALSE
      [] v.t = "nan" -> FALSE
      [] v.t = "number" -> v.n # 0
      [] v.t = "string" -> v.s # <<>>
      [] OTHER -> TRUE

\* a || b
Or(a, b) == IF Truthy(a) THEN a ELSE b

\* a ?? b
Coalesce(a, b) == IF a.t \in {"undefined", "null"} THEN b ELSE a

Digits == <<"0", "1", "2", "3", "4", "5", "6", "7", "8", "9">>

IsDigit(c) == \E i \in 1..10 : Digits[i] = c

DigitValue(c) == (CHOOSE i \in 1..10 : Digits[i] = c) - 1

WhiteSpace == {" ", "\t"}

RECURSIVE TrimStart(_)
TrimStart(cs) ==
    IF cs # <<>> /\ Head(cs) \in WhiteSpace THEN TrimStart(Tail(cs)) ELSE cs

RECURSIVE TrimEnd(_)
TrimEnd(cs) ==
    IF cs # <<>> /\ cs[Len(cs)] \in WhiteSpace
    THEN TrimEnd(SubSeq(cs, 1, Len(cs) - 1))
    ELSE cs

\* String.prototype.trim
Trim(cs) == TrimEnd(TrimStart(cs))

\* String.prototype.startsWith
StartsWith(cs, prefix) ==
    Len(cs) >= Len(prefix) /\ SubSeq(cs, 1, Len(prefix)) = prefix

\* String.prototype.includes, for a one-character needle
Includes(cs, c) == \E i \in 1..Len(cs) : cs[i] = c

RECURSIVE DecimalValue(_)
DecimalValue(cs) ==
    IF cs = <<>> THEN 0
    ELSE 10 * DecimalValue(SubSeq(cs, 1, Len(cs) - 1)) + DigitValue(cs[Len(cs)])

RECURSIVE DecimalDigits(_)
DecimalDigits(k) ==
    IF k < 10 THEN <<Digits[k + 1]>>
    ELSE Append(DecimalDigits(k \div 10), Digits[(k % 10) + 1])

\* Number(v): undefined is NaN, null is 0, a string is trimmed and parsed
\* (the empty string is 0, an unsigned decimal its value, anything else NaN).
Number(v) ==
    CASE v.t = "undefined" -> NaN
      [] v.t = "null" -> Num(0)
      [] v.t = "string" ->
            LET body == Trim(v.s) IN
            IF body = <<>> THEN Num(0)
            ELSE IF \A i \in 1..Len(body) : IsDigit(body[i])
                 THEN Num(DecimalValue(body))
                 ELSE NaN
      [] OTHER -> v

\* Number.isFinite
IsFinite(v) == v.t = "number"

\* String(v), as a sequence of characters
StringOf(v) ==
    CASE v.t = "string" -> v.s
      [] v.t = "number" ->
            IF v.n < 0 THEN <<"-">> \o DecimalDigits(-v.n) ELSE DecimalDigits(v.n)
      [] v.t = "nan" -> <<"N", "a", "N">>
      [] v.t = "null" -> <<"n", "u", "l", "l">>
      [] OTHER -> <<"u", "n", "d", "e", "f", "i", "n", "e", "d">>

Min(S) == CHOOSE m \in S : \A k \in S : m <= k

\* Array.prototype.sort with a consistent comparator: a stable sort.
\* Before(a, b) is "comparator(a, b) < 0".
StableSort(s, Before(_, _)) ==
    LET Insert(t, x) ==
            LET later == {i \in 1..Len(t) : Before(x, t[i])}
                pos == IF later = {} THEN Len(t) + 1 ELSE Min(later)
            IN SubSeq(t, 1, pos - 1) \o <<x>> \o SubSeq(t, pos, Len(t))
        sorted[k \in 0..Len(s)] ==
            IF k = 0 THEN <<>> ELSE Insert(sorted[k - 1], s[k])
    IN sorted[Len(s)]

\* The values of a sequence
Range(s) == {s[i] : i \in 1..Len(s)}

(***************************************************************************)
(* String.prototype.localeCompare(other, "ru", { sensitivity: "base" })    *)
(*                                                                         *)
(* Under sensitivity "base" only the base letters are compared: a # b,     *)
(* a = A, a = a-acute.  CollationClasses lists, in collation order, the    *)
(* characters that share a base letter.                                    *)
(***************************************************************************)
CollationClasses ==
    << {" ", "\t"}, {"-"}, {"?"}, {"0"}, {"1"}, {"2"}, {"3"}, {"4"}, {"5"},
       {"6"}, {"7"}, {"8"}, {"9"},
       {"a", "A", "a_acute"}, {"b", "B"}, {"c", "C"},
       {"cyr_a"}, {"cyr_b", "cyr_B"}, {"cyr_v"}, {"cyr_e"}, {"cyr_z"},
       {"cyr_i"}, {"cyr_n"}, {"cyr_ya"} >>

BaseLetter(c) ==
    IF \E i \in 1..Len(CollationClasses) : c \in CollationClasses[i]
    THEN CHOOSE i \in 1..Len(CollationClasses) : c \in CollationClasses[i]
    ELSE 0

\* The comparison of two key sequences, element by element: -1, 0 or 1.
RECURSIVE CompareKeys(_, _)
CompareKeys(a, b) ==
    CASE a = <<>> /\ b = <<>> -> 0
      [] a = <<>> -> -1
      [] b = <<>> -> 1
      [] Head(a) < Head(b) -> -1
      [] Head(a) > Head(b) -> 1
      [] OTHER -> CompareKeys(Tail(a), Tail(b))

LocaleCompare(a, b) ==
    CompareKeys([i \in 1..Len(a) |-> BaseLetter(a[i])],
                [i \in 1..Len(b) |-> BaseLetter(b[i])])

(***************************************************************************)
(* Raw catalog cards                                                       *)
(***************************************************************************)
NotAnArray == [isArray |-> FALSE, items |-> <<>>]
Array(items) == [isArray |-> TRUE, items |-> items]

\* An entry of a photo collection: a string, or an object with the fields
\* selectPhotoUrl reads.
StringItem(cs) ==
    [kind |-> "string", str |-> cs, isMain |-> Undefined, big |-> Undefined,
     c516x688 |-> Undefined, c246x328 |-> Undefined, tm |-> Undefined,
     url |-> Undefined]
ObjectItem ==
    [kind |-> "object", str |-> <<>>, isMain |-> Undefined, big |-> Undefined,
     c516x688 |-> Undefined, c246x328 |-> Undefined, tm |-> Undefined,
     url |-> Undefined]

\* A card none of whose fields is set
EmptyCard ==
    [nmID |-> Undefined, nmId |-> Undefined, title |-> Undefined,
     subjectName |-> Undefined, vendorCode |-> Undefined,
     photos |-> NotAnArray, mediaFiles |-> NotAnArray, images |-> NotAnArray,
     photo |-> Undefined, image |-> Undefined, imageUrl |-> Undefined,
     updatedAt |-> Undefined, updateAt |-> Undefined, modifiedAt |-> Undefined,
     createdAt |-> Undefined]

Http == <<"h", "t", "t", "p">>

\* encodeURIComponent: the unreserved characters stay, the others are
\* percent-encoded.
PercentEncoded(c) ==
    CASE c = ":" -> <<"%", "3", "A">>
      [] c = "?" -> <<"%", "3", "F">>
      [] c = " " -> <<"%", "2", "0">>
      [] c = "/" -> <<"%", "2", "F">>
      [] OTHER -> <<c>>

RECURSIVE EncodeURIComponent(_)
EncodeURIComponent(cs) ==
    IF cs = <<>> THEN <<>>
    ELSE PercentEncoded(Head(cs)) \o EncodeURIComponent(Tail(cs))

appendPhotoVersion(url, card) ==
    LET versionRaw ==
            Or(Or(Or(card.updatedAt, card.updateAt), card.modifiedAt), card.createdAt)
        version == Trim(StringOf(versionRaw))
        joiner == IF Includes(url, "?") THEN <<"&">> ELSE <<"?">>
    IN IF ~Truthy(versionRaw) THEN url
       ELSE IF version = <<>> THEN url
       ELSE url \o joiner \o <<"w", "b", "v", "=">> \o EncodeURIComponent(version)

\* const keyScores, in the order of Object.entries
keyScores ==
    << <<"big", 60>>, <<"c516x688", 55>>, <<"c246x328", 50>>, <<"tm", 45>>,
       <<"url", 40>> >>

IsHttpString(v) == IsString(v) /\ StartsWith(v.s, Http)

\* The candidates one entry contributes: [baseScore, isMain, score, -index, url]
ItemCandidates(item, index, baseScore) ==
    IF item.kind = "string" /\ StartsWith(item.str, Http)
    THEN << <<baseScore, 0, 0, -index, item.str>> >>
    ELSE IF item.kind = "object"
    THEN LET isMain == IF item.isMain = Bool(TRUE) THEN 1 ELSE 0
             hit(k) == IsHttpString(item[keyScores[k][1]])
             build[k \in 0..Len(keyScores)] ==
                 IF k = 0 THEN <<>>
                 ELSE IF hit(k)
                      THEN Append(build[k - 1],
                                  <<baseScore, isMain, keyScores[k][2], -index,
                                    item[keyScores[k][1]].s>>)
                      ELSE build[k - 1]
         IN build[Len(keyScores)]
    ELSE <<>>

\* const collect = (items, baseScore) => ...; index counts from 0
collect(items, baseScore) ==
    IF ~items.isArray THEN <<>>
    ELSE LET acc[k \in 0..Len(items.items)] ==
                 IF k = 0 THEN <<>>
                 ELSE acc[k - 1] \o ItemCandidates(items.items[k], k - 1, baseScore)
         IN acc[Len(items.items)]

\* The comparator with the isMain flag ahead of the collection's score
CandidateBeforeMainFirst(a, b) ==
    LET order == <<2, 1, 3, 4>> IN
    \E i \in 1..4 : /\ \A j \in 1..(i - 1) : a[order[j]] = b[order[j]]
                    /\ a[order[i]] > b[order[i]]

\* The comparator with the size key ahead of the isMain flag
CandidateBeforeKeyFirst(a, b) ==
    LET order == <<1, 3, 2, 4>> IN
    \E i \in 1..4 : /\ \A j \in 1..(i - 1) : a[order[j]] = b[order[j]]
                    /\ a[order[i]] > b[order[i]]

\* candidates.sort((a, b) => ...): the first of the four leading components
\* that differs decides, the larger first.
CandidateBefore(a, b) ==
    \E i \in 1..4 : /\ \A j \in 1..(i - 1) : a[j] = b[j]
                    /\ a[i] > b[i]

photosBase == 30
mediaFilesBase == 20
imagesBase == 10

allCandidates(card) ==
    collect(card.photos, photosBase) \o collect(card.mediaFiles, mediaFilesBase)
        \o collect(card.images, imagesBase)

\* The flat fields, in the order they are tried
flatKeys == <<"photo", "image", "imageUrl">>

selectPhotoUrl(card) ==
    LET candidates == allCandidates(card)
        flat == {k \in 1..Len(flatKeys) : IsHttpString(card[flatKeys[k]])}
    IN IF Len(candidates) > 0
       THEN Str(appendPhotoVersion(StableSort(candidates, CandidateBefore)[1][5], card))
       ELSE IF flat # {}
       THEN Str(appendPhotoVersion(card[flatKeys[Min(flat)]].s, card))
       ELSE Null

(***************************************************************************)
(* normalizeProducts                                                       *)
(***************************************************************************)
\* "Без названия"
DefaultTitle ==
    <<"cyr_B", "cyr_e", "cyr_z", " ", "cyr_n", "cyr_a", "cyr_z", "cyr_v",
      "cyr_a", "cyr_n", "cyr_i", "cyr_ya">>

\* const nmId = Number(card.nmID ?? card.nmId)
CardNmId(card) == Number(Coalesce(card.nmID, card.nmId))

ProductOf(card) ==
    [nm_id |-> CardNmId(card).n,
     title |-> Trim(StringOf(Or(Or(card.title, card.subjectName), Str(DefaultTitle)))),
     vendor_code |->
        LET v == Trim(StringOf(Or(card.vendorCode, Str(<<"-">>))))
        IN IF v = <<>> THEN <<"-">> ELSE v,
     photo_url |-> selectPhotoUrl(card)]

\* The loop in which a later card of an identifier replaces the product of
\* the earlier one
RECURSIVE NormalizeLoopLastWins(_, _, _)
NormalizeLoopLastWins(cs, seenSet, products) ==
    IF cs = <<>> THEN [seen |-> seenSet, products |-> products]
    ELSE LET card == Head(cs)
             nmId == CardNmId(card)
         IN IF ~IsFinite(nmId) THEN NormalizeLoopLastWins(Tail(cs), seenSet, products)
            ELSE IF nmId.n \in seenSet
            THEN NormalizeLoopLastWins(Tail(cs), seenSet,
                    [i \in 1..Len(products) |->
                        IF products[i].nm_id = nmId.n THEN ProductOf(card)
                        ELSE products[i]])
            ELSE NormalizeLoopLastWins(Tail(cs), seenSet \cup {nmId.n},
                                       Append(products, ProductOf(card)))

\* The loop over the cards, from the given locals `seen` and `products`
RECURSIVE NormalizeLoop(_, _, _)
NormalizeLoop(cs, seenSet, products) ==
    IF cs = <<>> THEN [seen |-> seenSet, products |-> products]
    ELSE LET card == Head(cs)
             nmId == CardNmId(card)
         IN IF ~IsFinite(nmId) THEN NormalizeLoop(Tail(cs), seenSet, products)
            ELSE IF nmId.n \in seenSet THEN NormalizeLoop(Tail(cs), seenSet, products)
            ELSE NormalizeLoop(Tail(cs), seenSet \cup {nmId.n},
                               Append(products, ProductOf(card)))

\* The comparator without its second key
ProductBeforeTitleOnly(a, b) == LocaleCompare(a.title, b.title) < 0

\* products.sort((a, b) => ...)
ProductBefore(a, b) ==
    LET titleCompare == LocaleCompare(a.title, b.title)
    IN IF titleCompare # 0 THEN titleCompare < 0 ELSE a.nm_id < b.nm_id

SortProducts(products) == StableSort(products, ProductBefore)

normalizeProducts(cs) == SortProducts(NormalizeLoop(cs, {}, <<>>).products)

(***************************************************************************)
(* fetchProductCards                                                       *)
(***************************************************************************)
\* Bounds of the model
MaxPageSize == 2
MaxMaxItems == 3
MaxBatch == 2
MaxRequests == 3

\* Math.min(pageSize, 100)
PageCap == 100

requestLimit(size) == IF size < PageCap THEN size ELSE PageCap

\* The cursor object of a request body: limit, and the pair when both locals
\* are truthy.
buildCursor(size, updatedAt, nmId) ==
    IF Truthy(updatedAt) /\ Truthy(nmId)
    THEN [limit |-> requestLimit(size), hasCursor |-> TRUE,
          updatedAt |-> updatedAt, nmID |-> nmId]
    ELSE [limit |-> requestLimit(size), hasCursor |-> FALSE,
          updatedAt |-> Undefined, nmID |-> Undefined]

\* Array.prototype.slice(0, end), end >= 0
SliceTo(s, end) == SubSeq(s, 1, IF end < Len(s) THEN end ELSE Len(s))

\* const batch = Array.isArray(payload.cards) ? payload.cards : []
batchOf(pl) == IF pl.cards.isArray THEN pl.cards.items ELSE <<>>

\* The cap tested with > in place of >=
reachedMaxItemsOffByOne(max, total) == max # 0 /\ total > max

\* if (maxItems && cards.length >= maxItems) break
reachedMaxItems(max, total) == max # 0 /\ total >= max

\* The test for a short batch left out
batchIsShortNever(batch, lim) == FALSE

\* if (batch.length < cursor.limit) break
batchIsShort(batch, lim) == Len(batch) < lim

\* if (!cursorPayload.updatedAt || !cursorPayload.nmID) break
cursorIsMissing(cursorPayload) ==
    ~Truthy(cursorPayload.updatedAt) \/ ~Truthy(cursorPayload.nmID)

\* The cursor value kept as received, without String()
nextCursorUpdatedAtRaw(cursorPayload) == cursorPayload.updatedAt

\* cursorUpdatedAt = String(cursorPayload.updatedAt)
nextCursorUpdatedAt(cursorPayload) == Str(StringOf(cursorPayload.updatedAt))

\* cursorNmId = Number(cursorPayload.nmID)
nextCursorNmId(cursorPayload) == Number(cursorPayload.nmID)

\* The cut made after the normalization
fpcReturnValueCutLast(all, max) == SliceTo(normalizeProducts(all), max)

\* return normalizeProducts(cards.slice(0, maxItems))
fpcReturnValue(all, max) == normalizeProducts(SliceTo(all, max))

\* What the loop body does with a successful page: the locals after it and
\* whether the loop goes round again.
afterPage(pl) ==
    LET batch == batchOf(pl)
        all == cards \o batch
        stopEarly == \/ reachedMaxItems(maxItems, Len(all))
                     \/ batchIsShort(batch, request.limit)
                     \/ cursorIsMissing(pl.cursor)
        updatedAt == IF stopEarly THEN cursorUpdatedAt ELSE nextCursorUpdatedAt(pl.cursor)
        nmId == IF stopEarly THEN cursorNmId ELSE nextCursorNmId(pl.cursor)
    IN [cards |-> all, cursorUpdatedAt |-> updatedAt, cursorNmId |-> nmId,
        again |-> ~stopEarly /\ Truthy(nmId)]

\* The inputs of the model: options, cards and page responses
PageSizes == (1..MaxPageSize) \cup {PageCap + 50}
MaxItemsValues == 0..MaxMaxItems

CatalogCards ==
    { [EmptyCard EXCEPT !.nmID = Num(1), !.title = Str(<<"b">>)],
      [EmptyCard EXCEPT !.nmId = Str(<<"2">>), !.title = Str(<<"a">>)] }

SeqsUpTo(S, n) == UNION {[1..k -> S] : k \in 0..n}

\* payload.cursor: without updatedAt, without nmID, two complete pairs (one
\* of them a number and a string the wrong way round), and an nmID that is
\* no number
CursorPayloads ==
    { [updatedAt |-> Undefined, nmID |-> Num(5)],
      [updatedAt |-> Str(<<"t">>), nmID |-> Undefined],
      [updatedAt |-> Str(<<"t">>), nmID |-> Num(5)],
      [updatedAt |-> Num(7), nmID |-> Str(<<"6">>)],
      [updatedAt |-> Str(<<"t">>), nmID |-> Str(<<"x">>)] }

\* The successful page responses: status "ok", payload.cards, payload.cursor
Payloads ==
    [status : {"ok"},
     cards : {NotAnArray} \cup {Array(b) : b \in SeqsUpTo(CatalogCards, MaxBatch)},
     cursor : CursorPayloads]

\* The ways fetchJson throws: response.ok is false, payload.error === true
FetchErrors == {"http", "payload.error"}

NoRequest == [limit |-> 0, hasCursor |-> FALSE, updatedAt |-> Undefined, nmID |-> Undefined]
NoPayload ==
    [status |-> "none", cards |-> NotAnArray,
     cursor |-> [updatedAt |-> Undefined, nmID |-> Undefined]]
NoResult == [kind |-> "none", products |-> <<>>]

\* The other components at rest
NormIdle == normCards = <<>> /\ seen = {} /\ normCalls = <<>>
PhotoIdle == photoCard = EmptyCard /\ photoResult = <<>>
LbdIdle == rows = <<>> /\ limit = 0 /\ lbdResult = <<>>

FeedbackIdle ==
    /\ fbCall = "idle" /\ fbNmId = 0 /\ fbLimit = 0 /\ fbPc = "idle"
    /\ fbRequests = <<>> /\ fbOutcomes = <<>> /\ fbPartition = "unanswered"
    /\ fbSkip = 0 /\ fbItems = <<>> /\ fbResult = <<>> /\ fbSettled = <<>>
WalkIdle ==
    /\ wkNmId = 0 /\ wkLimit = 0 /\ wkPc = "idle" /\ wkPartition = "unanswered"
    /\ wkSkip = 0 /\ wkTotal = 0 /\ wkRequest = <<>> /\ wkLastPage = <<>> /\ wkIssued = <<>>
StoreIdle ==
    /\ kvUrl = FALSE /\ kvToken = FALSE /\ memoryStore = <<>> /\ remoteStore = <<>>
    /\ storeLog = <<>>
CsvIdle == csvRows = <<>> /\ csvResult = <<>>
CellIdle ==
    escValue = <<>> /\ escResult = <<>> /\ flatRow = <<>> /\ flatResult = <<>>
VerifyIdle ==
    vfInitData = <<>> /\ vfBotToken = <<>> /\ vfMaxAge = <<>> /\ vfNow = 0 /\ vfResult = <<>>
HandlerIdle ==
    hdHandler = "" /\ hdMethod = "" /\ hdBody = <<>> /\ hdPc = "" /\ hdCalls = <<>> /\ hdResponse = <<>>
AppIdle ==
    apInitData = FALSE /\ apPc = "" /\ apOp = "" /\ loading = FALSE /\ needsToken = FALSE /\ selected = FALSE /\ apEnded = <<>>
RestIdle == FeedbackIdle /\ WalkIdle /\ StoreIdle /\ CsvIdle /\ CellIdle /\ VerifyIdle /\ HandlerIdle /\ AppIdle

CatalogIdle ==
    /\ fpcPc = "idle" /\ pageSize = 0 /\ maxItems = 0
    /\ cursorUpdatedAt = Null /\ cursorNmId = Null /\ cards = <<>>
    /\ request = NoRequest /\ nRequests = 0 /\ nResponses = 0
    /\ payload = NoPayload /\ fpcResult = NoResult

\* The call fetchProductCards(token, { pageSize, maxItems }) has been made.
CatalogInit ==
    /\ fpcPc = "start"
    /\ pageSize \in PageSizes
    /\ maxItems \in MaxItemsValues
    /\ cursorUpdatedAt = Null
    /\ cursorNmId = Null
    /\ cards = <<>>
    /\ request = NoRequest
    /\ nRequests = 0
    /\ nResponses = 0
    /\ payload = NoPayload
    /\ fpcResult = NoResult
    /\ NormIdle /\ PhotoIdle /\ LbdIdle /\ RestIdle

\* The function runs to its first await: the first page request is issued.
FpcFirstRequest ==
    /\ fpcPc = "start"
    /\ request' = buildCursor(pageSize, cursorUpdatedAt, cursorNmId)
    /\ nRequests' = nRequests + 1
    /\ fpcPc' = "await"
    /\ UNCHANGED <<pageSize, maxItems, cursorUpdatedAt, cursorNmId, cards, nResponses,
                   payload, fpcResult, normVars, photoVars, lbdVars, restVars>>

\* A failed page fetched again
FpcPageFailsRetried ==
    /\ fpcPc = "await"
    /\ nRequests < MaxRequests
    /\ \E why \in FetchErrors : payload' = [NoPayload EXCEPT !.status = why]
    /\ nRequests' = nRequests + 1
    /\ nResponses' = nResponses + 1
    /\ UNCHANGED <<fpcPc, pageSize, maxItems, cursorUpdatedAt, cursorNmId, cards,
                   request, fpcResult, normVars, photoVars, lbdVars, restVars>>

\* fetchJson throws (response.ok is false, or payload.error === true): the
\* call rejects with that error.
FpcPageFails ==
    /\ fpcPc = "await"
    /\ \E why \in FetchErrors :
          /\ payload' = [NoPayload EXCEPT !.status = why]
          /\ fpcResult' = [kind |-> why, products |-> <<>>]
    /\ nResponses' = nResponses + 1
    /\ fpcPc' = "thrown"
    /\ UNCHANGED <<pageSize, maxItems, cursorUpdatedAt, cursorNmId, cards, request,
                   nRequests, normVars, photoVars, lbdVars, restVars>>

\* A page arrives and the loop goes round: the next request is issued.
FpcPageThenNextRequest ==
    /\ fpcPc = "await"
    /\ nRequests < MaxRequests
    /\ \E pl \in Payloads :
          LET after == afterPage(pl) IN
          /\ after.again
          /\ payload' = pl
          /\ cards' = after.cards
          /\ cursorUpdatedAt' = after.cursorUpdatedAt
          /\ cursorNmId' = after.cursorNmId
          /\ request' = buildCursor(pageSize, after.cursorUpdatedAt, after.cursorNmId)
    /\ nRequests' = nRequests + 1
    /\ nResponses' = nResponses + 1
    /\ UNCHANGED <<fpcPc, pageSize, maxItems, fpcResult, normVars, photoVars, lbdVars, restVars>>

\* A page arrives and the loop breaks: the call returns.
FpcPageThenReturn ==
    /\ fpcPc = "await"
    /\ \E pl \in Payloads :
          LET after == afterPage(pl) IN
          /\ ~after.again
          /\ payload' = pl
          /\ cards' = after.cards
          /\ cursorUpdatedAt' = after.cursorUpdatedAt
          /\ cursorNmId' = after.cursorNmId
          /\ fpcResult' = [kind |-> "products",
                           products |-> fpcReturnValue(after.cards, maxItems)]
    /\ nResponses' = nResponses + 1
    /\ fpcPc' = "returned"
    /\ UNCHANGED <<pageSize, maxItems, request, nRequests, normVars, photoVars, lbdVars, restVars>>

CatalogNext ==
    \/ FpcFirstRequest
    \/ FpcPageFails
    \/ FpcPageThenNextRequest
    \/ FpcPageThenReturn

SpecCatalog == CatalogInit /\ [][CatalogNext]_vars

(***************************************************************************)
(* Claims about fetchProductCards, checked under SpecCatalog               *)
(***************************************************************************)
\* A request after the first one is in flight: `payload` is the response
\* before it and `cards` the running total after that response.
FurtherRequestIssued == fpcPc = "await" /\ nRequests >= 2

\* C1, as stated: a further page is requested only if, after the previous
\* page was accumulated, the running total is below maxItems, the batch had
\* at least the requested page size and the response carried both updatedAt
\* and nmID.
C1_FurtherPageOnlyIfAllThree ==
    FurtherRequestIssued =>
        /\ Len(cards) < maxItems
        /\ Len(batchOf(payload)) >= request.limit
        /\ Truthy(payload.cursor.updatedAt)
        /\ Truthy(payload.cursor.nmID)

\* C1, amended: a maxItems of 0 switches the cap off; otherwise as stated.
C1_FurtherPageOnlyIfAllThreeOrNoCap ==
    FurtherRequestIssued =>
        /\ maxItems = 0 \/ Len(cards) < maxItems
        /\ Len(batchOf(payload)) >= request.limit
        /\ Truthy(payload.cursor.updatedAt)
        /\ Truthy(payload.cursor.nmID)

C1_Witness == FurtherRequestIssued /\ maxItems > 0 /\ nRequests = 3

\* C2, as stated: the first request carries no cursor fields, every later
\* one carries exactly the (updatedAt, nmID) pair of the response before it,
\* and every request asks for min(pageSize, 100) cards.
C2_CursorIsPreviousPair ==
    fpcPc = "await" =>
        /\ request.limit = (IF pageSize < 100 THEN pageSize ELSE 100)
        /\ nRequests = 1 => ~request.hasCursor
        /\ nRequests >= 2 =>
              /\ request.hasCursor
              /\ request.updatedAt = payload.cursor.updatedAt
              /\ request.nmID = payload.cursor.nmID

\* C2, amended: a later request carries the pair of the response before it
\* with updatedAt converted to a string and nmID converted to a number.
C2_CursorIsPreviousPairConverted ==
    fpcPc = "await" =>
        /\ request.limit = (IF pageSize < 100 THEN pageSize ELSE 100)
        /\ nRequests = 1 => ~request.hasCursor
        /\ nRequests >= 2 =>
              /\ request.hasCursor
              /\ request.updatedAt = Str(StringOf(payload.cursor.updatedAt))
              /\ request.nmID = Number(payload.cursor.nmID)
              /\ request.nmID.t = "number"

C2_Witness ==
    /\ FurtherRequestIssued
    /\ payload.cursor.nmID.t = "string"
    /\ pageSize > 100 \/ nRequests = 3

\* The products of a list of cards, first card of each identifier only, as
\* a set; and the order normalizeProducts gives.
C3_NormalizedAll == normalizeProducts(cards)

\* C3, as stated: the returned list is the normalization of all the
\* accumulated cards, cut to its first maxItems entries.
C3_TruncatedAfterNormalization ==
    fpcPc = "returned" =>
        fpcResult.products = SliceTo(C3_NormalizedAll, maxItems)

\* C3, amended: the accumulated cards are cut to the first maxItems and
\* then normalized, so a card beyond the cut takes no part in the
\* deduplication or the order.
C3_TruncatedBeforeNormalization ==
    fpcPc = "returned" =>
        LET kept == SubSeq(cards, 1, IF maxItems < Len(cards) THEN maxItems ELSE Len(cards))
        IN /\ fpcResult.kind = "products"
           /\ fpcResult.products = normalizeProducts(kept)
           /\ {p.nm_id : p \in Range(fpcResult.products)} =
                 {CardNmId(c).n : c \in Range(kept)}

C3_Witness ==
    /\ fpcPc = "returned"
    /\ maxItems > 0
    /\ Len(cards) > maxItems
    /\ Len(fpcResult.products) < maxItems
    /\ Len(C3_NormalizedAll) >= maxItems

MaxCards == 3
MaxCalls == 2

UrlOf(cs) == Http \o <<":">> \o cs

\* Raw cards: identifiers as numbers and as strings, under nmID and under
\* nmId, one that is no number; titles that differ in case, in an accent,
\* in surrounding blanks, or are missing.
NormCards ==
    { [EmptyCard EXCEPT !.nmID = Num(1), !.title = Str(<<"b">>),
                        !.vendorCode = Str(<<"c">>)],
      [EmptyCard EXCEPT !.nmID = Str(<<"1">>), !.title = Str(<<"a">>),
                        !.photo = Str(UrlOf(<<"a">>))],
      [EmptyCard EXCEPT !.nmID = Num(2), !.title = Str(<<"B">>),
                        !.vendorCode = Str(<<" ">>)],
      [EmptyCard EXCEPT !.nmID = Null, !.nmId = Num(2), !.title = Str(<<" ", "a", " ">>),
                        !.vendorCode = Num(7)],
      [EmptyCard EXCEPT !.nmId = Num(3), !.title = Str(<<"a_acute">>)],
      [EmptyCard EXCEPT !.nmID = Num(4), !.title = Str(<<"A">>)],
      [EmptyCard EXCEPT !.nmID = Str(<<"x">>), !.title = Str(<<"a">>)],
      [EmptyCard EXCEPT !.nmID = Num(3), !.subjectName = Str(<<"c">>)],
      [EmptyCard EXCEPT !.nmId = Num(1)] }

NormInit ==
    /\ normCards \in SeqsUpTo(NormCards, MaxCards)
    /\ seen = {}
    /\ normCalls = <<>>
    /\ CatalogIdle /\ PhotoIdle /\ LbdIdle /\ RestIdle

\* A call in which `seen` is a set kept from the call before
NormalizeCallSharedSeen ==
    /\ Len(normCalls) < MaxCalls
    /\ LET run == NormalizeLoop(normCards, seen, <<>>) IN
          /\ seen' = run.seen
          /\ normCalls' = Append(normCalls, SortProducts(run.products))
    /\ UNCHANGED <<normCards, catalogVars, photoVars, lbdVars, restVars>>

\* normalizeProducts(cards): `seen` and `products` are new in every call, the
\* loop reads `cards`, the sort is of `products`.
NormalizeCall ==
    /\ Len(normCalls) < MaxCalls
    /\ seen' = NormalizeLoop(normCards, {}, <<>>).seen
    /\ normCalls' = Append(normCalls, normalizeProducts(normCards))
    /\ UNCHANGED <<normCards, catalogVars, photoVars, lbdVars, restVars>>

NormNext == NormalizeCall

SpecNorm == NormInit /\ [][NormNext]_vars

(***************************************************************************)
(* Claims about normalizeProducts, checked under SpecNorm                  *)
(***************************************************************************)
\* The cards that have an identifier, and the first of them for one
HasIdentifier(card) == IsFinite(CardNmId(card))
FirstCardWith(id) ==
    normCards[Min({i \in 1..Len(normCards) :
                      HasIdentifier(normCards[i]) /\ CardNmId(normCards[i]).n = id})]
IdentifiersIn(cs) == {CardNmId(c).n : c \in {d \in Range(cs) : HasIdentifier(d)}}

\* C5: for every identifier in the input, the output holds exactly one
\* Product with it, and its title, vendor_code and photo_url are those of
\* the first card with that identifier.
C5_OneProductPerIdFromFirstCard ==
    \A k \in 1..Len(normCalls) :
        LET out == normCalls[k] IN
        /\ {out[i].nm_id : i \in 1..Len(out)} = IdentifiersIn(normCards)
        /\ \A id \in IdentifiersIn(normCards) :
              /\ Cardinality({i \in 1..Len(out) : out[i].nm_id = id}) = 1
              /\ \A i \in 1..Len(out) :
                    out[i].nm_id = id =>
                       LET first == FirstCardWith(id) IN
                       /\ out[i].title =
                             Trim(StringOf(Or(Or(first.title, first.subjectName),
                                              Str(DefaultTitle))))
                       /\ out[i].vendor_code = ProductOf(first).vendor_code
                       /\ out[i].photo_url = selectPhotoUrl(first)

\* Two cards share an identifier and differ in title and photo.
C5_Witness ==
    /\ Len(normCalls) >= 1
    /\ \E i, j \in 1..Len(normCards) :
          /\ i < j
          /\ HasIdentifier(normCards[i]) /\ HasIdentifier(normCards[j])
          /\ CardNmId(normCards[i]) = CardNmId(normCards[j])
          /\ ProductOf(normCards[i]).title # ProductOf(normCards[j]).title
          /\ ProductOf(normCards[i]).photo_url # ProductOf(normCards[j]).photo_url

\* A comparison that ignores case only: an accented letter is another
\* letter than the plain one and follows it.
Accented == {"a_acute"}
CaseInsensitiveKey(title) ==
    [i \in 1..Len(title) |->
        2 * BaseLetter(title[i]) + (IF title[i] \in Accented THEN 1 ELSE 0)]
CaseInsensitiveCompare(a, b) == CompareKeys(CaseInsensitiveKey(a), CaseInsensitiveKey(b))

\* The comparison the sort makes: base letters only, case and accents ignored
BaseLetterKey(title) == [i \in 1..Len(title) |-> BaseLetter(title[i])]

\* C6, as stated: adjacent Products are in (title, id) order, titles
\* compared case-insensitively, equal titles by ascending id.
C6_SortedCaseInsensitive ==
    \A k \in 1..Len(normCalls) :
        LET out == normCalls[k] IN
        \A i \in 1..(Len(out) - 1) :
            \/ CaseInsensitiveCompare(out[i].title, out[i + 1].title) < 0
            \/ /\ CaseInsensitiveCompare(out[i].title, out[i + 1].title) = 0
               /\ out[i].nm_id <= out[i + 1].nm_id

\* C6, amended: titles are compared by their base letters, ignoring case
\* and accents; titles equal in that comparison are in ascending id order.
C6_SortedByBaseLetters ==
    \A k \in 1..Len(normCalls) :
        LET out == normCalls[k] IN
        \A i \in 1..(Len(out) - 1) :
            \/ CompareKeys(BaseLetterKey(out[i].title), BaseLetterKey(out[i + 1].title)) < 0
            \/ /\ BaseLetterKey(out[i].title) = BaseLetterKey(out[i + 1].title)
               /\ out[i].nm_id < out[i + 1].nm_id

\* The sort moved a product, and two titles that differ only in case were
\* ordered by id.
C6_Witness ==
    /\ Len(normCalls) >= 1
    /\ Len(normCalls[1]) = 3
    /\ normCalls[1] # NormalizeLoop(normCards, {}, <<>>).products
    /\ \E i \in 1..2 :
          /\ normCalls[1][i].title # normCalls[1][i + 1].title
          /\ BaseLetterKey(normCalls[1][i].title) = BaseLetterKey(normCalls[1][i + 1].title)

\* C7: a second call on the same list gives the output of the first, and a
\* call leaves the list as it was.
C7_SameOutputInputUntouched ==
    [][ /\ normCards' = normCards
        /\ \A k \in 1..Len(normCalls) : normCalls'[Len(normCalls')] = normCalls[k]
      ]_vars

C7_Witness ==
    /\ Len(normCalls) = 2
    /\ Len(normCalls[2]) >= 2
    /\ Len(normCards) > Len(normCalls[2])

(***************************************************************************)
(* selectPhotoUrl called on a card (SpecPhoto)                             *)
(***************************************************************************)
MaxEntries == 1

\* The entries of a collection; `tag` marks the collection in every URL.
PhotoEntries(tag) ==
    { StringItem(UrlOf(<<tag, "s">>)),
      StringItem(<<"x">>),
      [ObjectItem EXCEPT !.isMain = Bool(TRUE), !.tm = Str(UrlOf(<<tag, "t">>))],
      [ObjectItem EXCEPT !.big = Str(UrlOf(<<tag, "b">>)), !.url = Str(<<"x">>)] }

PhotoCollections(tag) ==
    {NotAnArray} \cup {Array(items) : items \in SeqsUpTo(PhotoEntries(tag), MaxEntries)}

PhotoCards ==
    { [EmptyCard EXCEPT !.photos = p, !.mediaFiles = m, !.images = g,
                        !.photo = f1, !.image = f2, !.imageUrl = f3,
                        !.updatedAt = v] :
        p \in PhotoCollections("p"), m \in PhotoCollections("m"),
        g \in PhotoCollections("i"),
        f1 \in {Undefined, Str(<<"x">>), Str(UrlOf(<<"f", "1">>))},
        f2 \in {Undefined, Str(UrlOf(<<"f", "2">>))},
        f3 \in {Undefined, Str(UrlOf(<<"f", "3">>))},
        v \in {Undefined, Str(<<"v">>)} }

PhotoInit ==
    /\ photoCard \in PhotoCards
    /\ photoResult = <<>>
    /\ CatalogIdle /\ NormIdle /\ LbdIdle /\ RestIdle

SelectPhotoCall ==
    /\ photoResult = <<>>
    /\ photoResult' = <<selectPhotoUrl(photoCard)>>
    /\ UNCHANGED <<photoCard, catalogVars, normVars, lbdVars, restVars>>

PhotoNext == SelectPhotoCall

SpecPhoto == PhotoInit /\ [][PhotoNext]_vars

(***************************************************************************)
(* Claims about selectPhotoUrl, checked under SpecPhoto                    *)
(***************************************************************************)
\* The URLs a collection offers: its http strings, and the http strings
\* under the size keys of its objects
SizeKeys == {"big", "c516x688", "c246x328", "tm", "url"}
EntryUrls(item) ==
    IF item.kind = "string"
    THEN (IF StartsWith(item.str, Http) THEN {item.str} ELSE {})
    ELSE {item[k].s : k \in {q \in SizeKeys : item[q].t = "string"
                                               /\ StartsWith(item[q].s, Http)}}
CollectionUrls(coll) ==
    IF coll.isArray THEN UNION {EntryUrls(coll.items[i]) : i \in 1..Len(coll.items)}
    ELSE {}

\* The result is one of the given URLs, with or without the version suffix.
ChosenFrom(result, urls) ==
    /\ result.t = "string"
    /\ \E u \in urls : StartsWith(result.s, u)

FlatUrl(card, key) ==
    IF card[key].t = "string" /\ StartsWith(card[key].s, Http) THEN {card[key].s} ELSE {}

\* C8: the collection decides before anything else: photos, then mediaFiles,
\* then images; the flat fields photo, image, imageUrl, in that order, only
\* when no collection offers a URL; null when nothing does.
C8_CollectionPriorityDominates ==
    photoResult # <<>> =>
        LET r == photoResult[1]
            p == CollectionUrls(photoCard.photos)
            m == CollectionUrls(photoCard.mediaFiles)
            g == CollectionUrls(photoCard.images)
            f1 == FlatUrl(photoCard, "photo")
            f2 == FlatUrl(photoCard, "image")
            f3 == FlatUrl(photoCard, "imageUrl")
        IN CASE p # {} -> ChosenFrom(r, p)
             [] m # {} -> ChosenFrom(r, m)
             [] g # {} -> ChosenFrom(r, g)
             [] f1 # {} -> ChosenFrom(r, f1)
             [] f2 # {} -> ChosenFrom(r, f2)
             [] f3 # {} -> ChosenFrom(r, f3)
             [] OTHER -> r = Null

\* photos offers only an entry that is not main, mediaFiles an entry marked
\* isMain, images an entry with the key big.
C8_Witness ==
    /\ photoResult # <<>>
    /\ photoCard.photos = Array(<<StringItem(UrlOf(<<"p", "s">>))>>)
    /\ \E i \in 1..Len(photoCard.mediaFiles.items) :
          photoCard.mediaFiles.items[i].isMain = Bool(TRUE)
    /\ \E i \in 1..Len(photoCard.images.items) :
          photoCard.images.items[i].big.t = "string"
    /\ photoCard.photo.t = "string"

(***************************************************************************)
(* latestByDate                                                            *)
(***************************************************************************)
\* Days from 1970-01-01 to the given civil date (proleptic Gregorian)
DaysFromCivil(y, m, d) ==
    LET yy == IF m <= 2 THEN y - 1 ELSE y
        era == yy \div 400
        yoe == yy - era * 400
        mp == IF m > 2 THEN m - 3 ELSE m + 9
        doy == (153 * mp + 2) \div 5 + d - 1
        doe == yoe * 365 + yoe \div 4 - yoe \div 100 + doy
    IN era * 146097 + doe - 719468

MsPerDay == 86400000

\* A time value in milliseconds since the epoch, kept as whole days and the
\* milliseconds within the day; TimeZero is the number 0.
TimeOfDays(d) == [days |-> d, ms |-> 0]
TimeOfMs(k) == [days |-> k \div MsPerDay, ms |-> k % MsPerDay]
TimeZero == TimeOfDays(0)

\* a < b on time values
TimeLess(a, b) == a.days < b.days \/ (a.days = b.days /\ a.ms < b.ms)

\* new Date(text).getTime() for the date-only form YYYY-MM-DD (UTC midnight);
\* <<>> stands for NaN, the value of any other text.
DateStringTime(cs) ==
    IF /\ Len(cs) = 10
       /\ cs[5] = "-" /\ cs[8] = "-"
       /\ \A i \in {1, 2, 3, 4, 6, 7, 9, 10} : IsDigit(cs[i])
    THEN LET y == DecimalValue(SubSeq(cs, 1, 4))
             m == DecimalValue(SubSeq(cs, 6, 7))
             d == DecimalValue(SubSeq(cs, 9, 10))
         IN IF m \in 1..12 /\ d \in 1..31
            THEN <<TimeOfDays(DaysFromCivil(y, m, d))>>
            ELSE <<>>
    ELSE <<>>

\* function parseDate(value)
parseDate(value) ==
    IF ~Truthy(value) THEN TimeZero
    ELSE IF value.t = "number" THEN TimeOfMs(value.n)
    ELSE IF value.t = "string"
    THEN (IF DateStringTime(value.s) = <<>> THEN TimeZero ELSE DateStringTime(value.s)[1])
    ELSE TimeZero

\* a || b on numbers
OrNumber(a, b) == IF a # TimeZero THEN a ELSE b

\* const aDate = parseDate(a.createdDate) || ... || parseDate(a.updatedDate)
rowDate(row) ==
    OrNumber(OrNumber(OrNumber(OrNumber(parseDate(row.createdDate),
                                        parseDate(row.createdAt)),
                               parseDate(row.date)),
                      parseDate(row.created)),
             parseDate(row.updatedDate))

\* The test made with row.id alone, so that an id of 0 counts as none
rowHasIdTruthy(row) == Truthy(row.id)

\* row && row.id != null
rowHasId(row) == row.id.t \notin {"undefined", "null"}

\* String(row.id)
rowKey(row) == StringOf(row.id)

\* Map.prototype.set that leaves a key already there as it is
MapSetIfAbsent(map, key, value) ==
    IF \E i \in 1..Len(map) : map[i].key = key
    THEN map
    ELSE Append(map, [key |-> key, value |-> value])

\* Map.prototype.set on a map kept as the sequence of its entries in
\* insertion order: a key already there keeps its place and takes the value.
MapSet(map, key, value) ==
    IF \E i \in 1..Len(map) : map[i].key = key
    THEN [i \in 1..Len(map) |->
             IF map[i].key = key THEN [key |-> key, value |-> value] ELSE map[i]]
    ELSE Append(map, [key |-> key, value |-> value])

\* for (const row of rows) { ... }
RECURSIVE partitionRows(_, _, _)
partitionRows(rs, map, withoutId) ==
    IF rs = <<>> THEN [map |-> map, withoutId |-> withoutId]
    ELSE IF rowHasId(Head(rs))
    THEN partitionRows(Tail(rs), MapSet(map, rowKey(Head(rs)), Head(rs)), withoutId)
    ELSE partitionRows(Tail(rs), map, Append(withoutId, Head(rs)))

\* The comparator with its operands exchanged: oldest first
RowBeforeOldestFirst(a, b) == TimeLess(rowDate(a), rowDate(b))

\* all.sort((a, b) => bDate - aDate)
RowBefore(a, b) == TimeLess(rowDate(b), rowDate(a))

\* The cut made one item too late
limitRowsOnePast(all, lim) == IF lim # 0 THEN SliceTo(all, lim + 1) ELSE all

\* limit ? all.slice(0, limit) : all
limitRows(all, lim) == IF lim # 0 THEN SliceTo(all, lim) ELSE all

latestByDate(rs, lim) ==
    LET parts == partitionRows(rs, <<>>, <<>>)
        withId == [i \in 1..Len(parts.map) |-> parts.map[i].value]
        all == withId \o parts.withoutId
    IN limitRows(StableSort(all, RowBefore), lim)

(***************************************************************************)
(* latestByDate called on merged rows (SpecLatest)                         *)
(***************************************************************************)
MaxRows == 3
MaxLimit == 4

EmptyRow ==
    [id |-> Undefined, createdDate |-> Undefined, createdAt |-> Undefined,
     date |-> Undefined, created |-> Undefined, updatedDate |-> Undefined]

Date(y1, y2, y3, y4, m1, m2, d1, d2) == Str(<<y1, y2, y3, y4, "-", m1, m2, "-", d1, d2>>)
Jan01 == Date("2", "0", "2", "4", "0", "1", "0", "1")
Jan02 == Date("2", "0", "2", "4", "0", "1", "0", "2")
Mar01 == Date("2", "0", "2", "4", "0", "3", "0", "1")
Dec31of1969 == Date("1", "9", "6", "9", "1", "2", "3", "1")

\* Feedback items: ids that repeat, an id as a number and as a string, a
\* null id and a missing id, dates under several fields, no date, a text
\* that is no date, a date before 1970.
FeedbackRows ==
    { [EmptyRow EXCEPT !.id = Num(1), !.createdDate = Jan01],
      [EmptyRow EXCEPT !.id = Num(2), !.createdDate = Mar01],
      [EmptyRow EXCEPT !.id = Num(1), !.createdDate = Jan02],
      [EmptyRow EXCEPT !.id = Str(<<"1">>), !.createdAt = Mar01],
      [EmptyRow EXCEPT !.id = Null, !.createdDate = Jan02],
      [EmptyRow EXCEPT !.createdDate = Str(<<"x">>), !.date = Mar01],
      [EmptyRow EXCEPT !.id = Num(2)],
      [EmptyRow EXCEPT !.id = Num(0), !.updatedDate = Jan01],
      [EmptyRow EXCEPT !.id = Num(3), !.created = Dec31of1969] }

LatestInit ==
    /\ rows \in SeqsUpTo(FeedbackRows, MaxRows)
    /\ limit \in 0..MaxLimit
    /\ lbdResult = <<>>
    /\ CatalogIdle /\ NormIdle /\ PhotoIdle /\ RestIdle

LatestByDateCall ==
    /\ lbdResult = <<>>
    /\ lbdResult' = <<latestByDate(rows, limit)>>
    /\ UNCHANGED <<rows, limit, catalogVars, normVars, photoVars, restVars>>

LatestNext == LatestByDateCall

SpecLatest == LatestInit /\ [][LatestNext]_vars

(***************************************************************************)
(* Claims about latestByDate, checked under SpecLatest                     *)
(***************************************************************************)
Max(S) == CHOOSE m \in S : \A k \in S : m >= k

\* An item whose id is neither null nor missing
HasNonNullId(row) == row.id # Null /\ row.id # Undefined

\* The places in `rows` of the items with the id of the given item, ids
\* compared as the Map keys are, by String(id)
SameIdPlaces(item) ==
    {j \in 1..Len(rows) : HasNonNullId(rows[j]) /\ rowKey(rows[j]) = rowKey(item)}

\* The example of the claim: ids 1, 2, 1 dated 2024-01-01, 2024-03-01,
\* 2024-01-02
C9_Example ==
    << [EmptyRow EXCEPT !.id = Num(1), !.createdDate = Jan01],
       [EmptyRow EXCEPT !.id = Num(2), !.createdDate = Mar01],
       [EmptyRow EXCEPT !.id = Num(1), !.createdDate = Jan02] >>

\* C9, as stated: of the items that share an id the output keeps the first
\* one in merge order; the example gives [id 2 of 03-01, id 1 of 01-01].
C9_FirstSeenRetained ==
    lbdResult # <<>> =>
        /\ \A i \in 1..Len(lbdResult[1]) :
              HasNonNullId(lbdResult[1][i]) =>
                  lbdResult[1][i] =
                      rows[Min({j \in 1..Len(rows) : rows[j].id = lbdResult[1][i].id})]
        /\ (rows = C9_Example /\ limit >= 2) =>
              SubSeq(lbdResult[1], 1, 2) = <<C9_Example[2], C9_Example[1]>>

\* C9, amended: the output keeps the last one in merge order; the example
\* gives [id 2 of 03-01, id 1 of 01-02].
C9_LastSeenRetained ==
    lbdResult # <<>> =>
        /\ \A i \in 1..Len(lbdResult[1]) :
              HasNonNullId(lbdResult[1][i]) =>
                  lbdResult[1][i] = rows[Max(SameIdPlaces(lbdResult[1][i]))]
        /\ (rows = C9_Example /\ limit >= 2) =>
              SubSeq(lbdResult[1], 1, 2) = <<C9_Example[2], C9_Example[3]>>

C9_Witness ==
    /\ lbdResult # <<>>
    /\ rows = C9_Example
    /\ limit = 3
    /\ Len(lbdResult[1]) = 2

\* How often a row occurs in a list
Occurrences(list, row) == Cardinality({i \in 1..Len(list) : list[i] = row})

\* C10, as stated: with a limit that is no smaller than the input, the
\* output holds at most one item for a non-null id, an item for every
\* non-null id of the input, and every item of the input that has no id.
C10_DedupById ==
    (lbdResult # <<>> /\ limit >= Len(rows)) =>
        LET out == lbdResult[1] IN
        /\ \A i, j \in 1..Len(out) :
              (i < j /\ HasNonNullId(out[i]) /\ HasNonNullId(out[j])) => out[i].id # out[j].id
        /\ \A k \in 1..Len(rows) :
              HasNonNullId(rows[k]) => \E i \in 1..Len(out) : out[i].id = rows[k].id
        /\ \A k \in 1..Len(rows) :
              ~HasNonNullId(rows[k]) => Occurrences(out, rows[k]) = Occurrences(rows, rows[k])

\* C10, amended: ids are the same when their texts String(id) are: at most
\* one item for each, an item for each, and every item without id.
C10_DedupByIdText ==
    (lbdResult # <<>> /\ limit >= Len(rows)) =>
        LET out == lbdResult[1] IN
        /\ \A i, j \in 1..Len(out) :
              (i < j /\ HasNonNullId(out[i]) /\ HasNonNullId(out[j])) =>
                  StringOf(out[i].id) # StringOf(out[j].id)
        /\ \A k \in 1..Len(rows) :
              HasNonNullId(rows[k]) =>
                  \E i \in 1..Len(out) : /\ HasNonNullId(out[i])
                                         /\ StringOf(out[i].id) = StringOf(rows[k].id)
        /\ \A k \in 1..Len(rows) :
              ~HasNonNullId(rows[k]) => Occurrences(out, rows[k]) = Occurrences(rows, rows[k])

\* An id twice, an item without id twice, nothing cut by the limit
C10_Witness ==
    /\ lbdResult # <<>>
    /\ limit >= Len(rows)
    /\ Len(rows) = 3
    /\ \E i, j \in 1..3 : i < j /\ HasNonNullId(rows[i]) /\ rows[i].id = rows[j].id
    /\ \E k \in 1..3 : ~HasNonNullId(rows[k])
    /\ Len(lbdResult[1]) = 2

\* The date fields in the order the comparator reads them
DateFields(row) ==
    <<row.createdDate, row.createdAt, row.date, row.created, row.updatedDate>>

\* The first non-zero parsed value among the date fields, zero when none
ResolvedDate(row) ==
    LET parsed == [k \in 1..5 |-> parseDate(DateFields(row)[k])]
        nonZero == {k \in 1..5 : parsed[k] # TimeZero}
    IN IF nonZero = {} THEN TimeZero ELSE parsed[Min(nonZero)]

\* Some date field of the item holds a date
HasDate(row) ==
    \E k \in 1..5 :
        LET v == DateFields(row)[k]
        IN \/ v.t = "number"
           \/ v.t = "string" /\ DateStringTime(v.s) # <<>>

\* The items are in the order of non-increasing resolved date
NonIncreasingResolvedDate(out) ==
    \A i, j \in 1..Len(out) :
        i < j => ~TimeLess(ResolvedDate(out[i]), ResolvedDate(out[j]))

\* C11, as stated: the output is ordered by non-increasing resolved date,
\* an item without a parseable date resolves to zero, and such an item comes
\* after every item that has a date.
C11_UndatedAfterEveryDated ==
    lbdResult # <<>> =>
        LET out == lbdResult[1] IN
        /\ NonIncreasingResolvedDate(out)
        /\ \A i \in 1..Len(out) : ~HasDate(out[i]) => ResolvedDate(out[i]) = TimeZero
        /\ \A i, j \in 1..Len(out) : (HasDate(out[i]) /\ ~HasDate(out[j])) => i < j

\* C11, amended: the output is ordered by non-increasing resolved date, an
\* item without a parseable date resolves to zero, and such an item comes
\* after every item whose resolved date is later than the epoch and before
\* every item whose resolved date is earlier than the epoch.
C11_UndatedAfterLaterThanEpoch ==
    lbdResult # <<>> =>
        LET out == lbdResult[1] IN
        /\ NonIncreasingResolvedDate(out)
        /\ \A i \in 1..Len(out) : ~HasDate(out[i]) => ResolvedDate(out[i]) = TimeZero
        /\ \A i, j \in 1..Len(out) :
              (~HasDate(out[j]) /\ TimeLess(TimeZero, ResolvedDate(out[i]))) => i < j
        /\ \A i, j \in 1..Len(out) :
              (~HasDate(out[j]) /\ TimeLess(ResolvedDate(out[i]), TimeZero)) => j < i

\* Given oldest first, returned newest first: an item dated before 1970, an
\* item without date, an item dated 2024 under its second date field
C11_Witness ==
    /\ lbdResult # <<>>
    /\ Len(rows) = 3
    /\ rows[1].created = Dec31of1969
    /\ ~HasDate(rows[2])
    /\ rows[3].createdAt = Mar01
    /\ lbdResult[1] = <<rows[3], rows[2], rows[1]>>

(***************************************************************************)
(* fetchFeedbacks / fetchQuestions and the two calls built on them:        *)
(* fetchLatestReviews and fetchAllQuestions (SpecFeedback)                 *)
(***************************************************************************)
MaxFbLimit == 2
MaxFbBatch == 2

\* Math.min(Math.max(limit, 1), 500)
ReviewsTakeCap == 500

\* const take = 1000 (fetchAllQuestions)
QuestionsTake == 1000

\* if (skip > 10000) break
SkipCeiling == 10000

\* The page size taken from limit as it is
reviewsTakeUnclamped(lim) == lim

\* const take = Math.min(Math.max(limit, 1), 500)
reviewsTake(lim) ==
    LET atLeastOne == IF lim > 1 THEN lim ELSE 1
    IN IF atLeastOne < ReviewsTakeCap THEN atLeastOne ELSE ReviewsTakeCap

\* The query of fetchFeedbacks / fetchQuestions: isAnswered, take, skip,
\* order, and nmId when it is truthy
feedbackQuery(path, nmId, isAnswered, take, skip) ==
    [path |-> path,
     nmId |-> IF nmId # 0 THEN <<nmId>> ELSE <<>>,
     isAnswered |-> isAnswered,
     take |-> take,
     skip |-> skip,
     order |-> "dateDesc"]

\* fetchJson throws: response.ok is false, or payload.error === true
fetchJsonThrows(resp) == ~resp.ok \/ resp.error

\* const data = payload.data || payload;
\* return Array.isArray(data.feedbacks) ? data.feedbacks : Array.isArray(data) ? data : []
\* `shape` says where the payload holds its list: under data.<name>, under
\* <name>, as data itself, or nowhere.
batchOfPayload(resp) ==
    IF resp.shape \in {"data.list", "list", "data"} THEN resp.list ELSE <<>>

Pending == [state |-> "pending", batch |-> <<>>]
Failed == [state |-> "failed", batch |-> <<>>]
Fetched(batch) == [state |-> "ok", batch |-> batch]

\* while (items.length < limit)
loopGoesOn(total, lim) == total < lim

\* The answered loop left out: the return follows the first loop
leaveLoopToReturn(part, total, lim) ==
    [await |-> FALSE, partition |-> "answered", skip |-> 0]

\* Where fetchAllQuestions is once a loop is left: at the first request of
\* the answered loop, or at its return; `total` is items.length.
leaveLoop(part, total, lim) ==
    IF part = "unanswered" /\ loopGoesOn(total, lim)
    THEN [await |-> TRUE, partition |-> "answered", skip |-> 0]
    ELSE [await |-> FALSE, partition |-> "answered", skip |-> 0]

\* Where it is at the head of a loop
loopHead(part, skip, total, lim) ==
    IF loopGoesOn(total, lim)
    THEN [await |-> TRUE, partition |-> part, skip |-> skip]
    ELSE leaveLoop(part, total, lim)

\* The offset left as it was
nextSkipSame(skip, count) == skip

\* skip += batch.length
nextSkip(skip, count) == skip + count

\* The offset never taken to be past the ceiling
skipPastCeilingNever(skip) == FALSE

\* if (skip > 10000) break
skipPastCeiling(skip) == skip > SkipCeiling

\* The loop body after a batch of `count` items arrived; `total` is
\* items.length before the batch.
\*   if (batch.length === 0) break; items.push(...batch);
\*   if (batch.length < take) break; skip += batch.length;
\*   if (skip > 10000) break;
afterBatch(part, skip, total, count, lim) ==
    IF count = 0 THEN leaveLoop(part, total, lim)
    ELSE IF count < QuestionsTake THEN leaveLoop(part, total + count, lim)
    ELSE IF skipPastCeiling(nextSkip(skip, count)) THEN leaveLoop(part, total + count, lim)
    ELSE loopHead(part, nextSkip(skip, count), total + count, lim)

\* The inputs: the limit, the article, what the source answers
FeedbackLimits == (0..MaxFbLimit) \cup {ReviewsTakeCap + 100}
NmIds == {0, 7}

SourceRows ==
    { [EmptyRow EXCEPT !.id = Num(1), !.createdDate = Jan01],
      [EmptyRow EXCEPT !.id = Num(1), !.createdDate = Jan02],
      [EmptyRow EXCEPT !.createdAt = Mar01] }

SourceResponses ==
    { [ok |-> FALSE, error |-> FALSE, shape |-> "none", list |-> <<>>],
      [ok |-> TRUE, error |-> TRUE, shape |-> "none", list |-> <<>>],
      [ok |-> TRUE, error |-> FALSE, shape |-> "none", list |-> <<>>] }
    \cup { [ok |-> TRUE, error |-> FALSE, shape |-> sh, list |-> b] :
               sh \in {"data.list", "list", "data"},
               b \in SeqsUpTo(SourceRows, MaxFbBatch) }

\* A call fetchLatestReviews(token, nmId, limit) or
\* fetchAllQuestions(token, nmId, limit) has been made.
FeedbackInit ==
    /\ fbCall \in {"reviews", "questions"}
    /\ fbNmId \in NmIds
    /\ fbLimit \in FeedbackLimits
    /\ fbPc = "start"
    /\ fbRequests = <<>>
    /\ fbOutcomes = <<>>
    /\ fbPartition = "unanswered"
    /\ fbSkip = 0
    /\ fbItems = <<>>
    /\ fbResult = <<>>
    /\ fbSettled = <<>>
    /\ CatalogIdle /\ NormIdle /\ PhotoIdle /\ LbdIdle /\ WalkIdle /\ StoreIdle /\ CsvIdle /\ CellIdle /\ VerifyIdle /\ HandlerIdle /\ AppIdle

\* fetchLatestReviews runs to its await: both fetchFeedbacks calls are made
\* while the array given to Promise.all is built, each running as far as
\* its fetch().
ReviewsCall ==
    /\ fbCall = "reviews"
    /\ fbPc = "start"
    /\ fbRequests' =
          << feedbackQuery("feedbacks", fbNmId, FALSE, reviewsTake(fbLimit), 0),
             feedbackQuery("feedbacks", fbNmId, TRUE, reviewsTake(fbLimit), 0) >>
    /\ fbOutcomes' = <<Pending, Pending>>
    /\ fbPc' = "await"
    /\ UNCHANGED <<fbSettled, fbCall, fbNmId, fbLimit, fbPartition, fbSkip, fbItems, fbResult,
                   catalogVars, normVars, photoVars, lbdVars, walkVars, storeVars, csvVars, cellVars, verifyVars, handlerVars, appVars>>

\* The two batches joined in the order they arrived
reviewsReturnValueInArrivalOrder(outcomes, lim) ==
    IF fbSettled = <<2>>
    THEN latestByDate(outcomes[2].batch \o outcomes[1].batch, lim)
    ELSE latestByDate(outcomes[1].batch \o outcomes[2].batch, lim)

\* return latestByDate(unanswered.concat(answered), limit)
reviewsReturnValue(outcomes, lim) ==
    latestByDate(outcomes[1].batch \o outcomes[2].batch, lim)

\* One of the two fetches fails while the call waits: Promise.all rejects
\* and the call throws.
ReviewsFetchRejects ==
    /\ fbCall = "reviews"
    /\ fbPc = "await"
    /\ \E i \in 1..2, resp \in SourceResponses :
          /\ fbOutcomes[i] = Pending
          /\ fbSettled' = Append(fbSettled, i)
          /\ fetchJsonThrows(resp)
          /\ fbOutcomes' = [fbOutcomes EXCEPT ![i] = Failed]
    /\ fbPc' = "thrown"
    /\ UNCHANGED <<fbCall, fbNmId, fbLimit, fbRequests, fbPartition, fbSkip, fbItems,
                   fbResult, catalogVars, normVars, photoVars, lbdVars, walkVars, storeVars, csvVars, cellVars, verifyVars, handlerVars, appVars>>

\* One of the two fetches succeeds while the call waits; with both batches
\* there, the call returns.
ReviewsFetchResolves ==
    /\ fbCall = "reviews"
    /\ fbPc = "await"
    /\ \E i \in 1..2, resp \in SourceResponses :
          LET outcomes == [fbOutcomes EXCEPT ![i] = Fetched(batchOfPayload(resp))] IN
          /\ fbOutcomes[i] = Pending
          /\ fbSettled' = Append(fbSettled, i)
          /\ ~fetchJsonThrows(resp)
          /\ fbOutcomes' = outcomes
          /\ IF \A k \in 1..2 : outcomes[k].state = "ok"
             THEN /\ fbPc' = "returned"
                  /\ fbResult' = <<reviewsReturnValue(outcomes, fbLimit)>>
             ELSE UNCHANGED <<fbPc, fbResult>>
    /\ UNCHANGED <<fbCall, fbNmId, fbLimit, fbRequests, fbPartition, fbSkip, fbItems,
                   catalogVars, normVars, photoVars, lbdVars, walkVars, storeVars, csvVars, cellVars, verifyVars, handlerVars, appVars>>

\* The other fetch settles after the call has thrown: nothing awaits it.
ReviewsFetchSettlesLate ==
    /\ fbCall = "reviews"
    /\ fbPc = "thrown"
    /\ \E i \in 1..2, resp \in SourceResponses :
          /\ fbOutcomes[i] = Pending
          /\ fbSettled' = Append(fbSettled, i)
          /\ fbOutcomes' = [fbOutcomes EXCEPT ![i] =
                               IF fetchJsonThrows(resp) THEN Failed
                               ELSE Fetched(batchOfPayload(resp))]
    /\ UNCHANGED <<fbCall, fbNmId, fbLimit, fbPc, fbRequests, fbPartition, fbSkip,
                   fbItems, fbResult, catalogVars, normVars, photoVars, lbdVars, walkVars, storeVars, csvVars, cellVars, verifyVars, handlerVars, appVars>>

\* The request fetchAllQuestions makes at an await
questionsQuery(part, skip) ==
    feedbackQuery("questions", fbNmId, part = "answered", QuestionsTake, skip)

\* fetchAllQuestions runs to its first await: a request of the unanswered
\* loop.
QuestionsFirstRequest ==
    /\ fbCall = "questions"
    /\ fbPc = "start"
    /\ LET at == loopHead("unanswered", 0, 0, fbLimit) IN
       /\ at.await
       /\ fbPartition' = at.partition
       /\ fbSkip' = at.skip
       /\ fbRequests' = <<questionsQuery(at.partition, at.skip)>>
    /\ fbOutcomes' = <<Pending>>
    /\ fbPc' = "await"
    /\ UNCHANGED <<fbSettled, fbCall, fbNmId, fbLimit, fbItems, fbResult,
                   catalogVars, normVars, photoVars, lbdVars, walkVars, storeVars, csvVars, cellVars, verifyVars, handlerVars, appVars>>

\* Neither loop is entered: the call returns latestByDate([], limit).
QuestionsReturnAtOnce ==
    /\ fbCall = "questions"
    /\ fbPc = "start"
    /\ ~loopHead("unanswered", 0, 0, fbLimit).await
    /\ fbResult' = <<latestByDate(fbItems, fbLimit)>>
    /\ fbPc' = "returned"
    /\ UNCHANGED <<fbSettled, fbCall, fbNmId, fbLimit, fbRequests, fbOutcomes, fbPartition, fbSkip,
                   fbItems, catalogVars, normVars, photoVars, lbdVars, walkVars, storeVars, csvVars, cellVars, verifyVars, handlerVars, appVars>>

\* A failed page taken as an empty one
QuestionsPageFailsIgnored ==
    /\ fbCall = "questions"
    /\ fbPc = "await"
    /\ \E resp \in SourceResponses : fetchJsonThrows(resp)
    /\ fbOutcomes' = [fbOutcomes EXCEPT ![Len(fbOutcomes)] = Failed]
    /\ fbResult' = <<latestByDate(fbItems, fbLimit)>>
    /\ fbPc' = "returned"
    /\ UNCHANGED <<fbSettled, fbCall, fbNmId, fbLimit, fbRequests, fbPartition, fbSkip, fbItems,
                   catalogVars, normVars, photoVars, lbdVars, walkVars, storeVars, csvVars, cellVars, verifyVars, handlerVars, appVars>>

\* fetchJson throws inside the awaited fetchQuestions: the call throws.
QuestionsPageFails ==
    /\ fbCall = "questions"
    /\ fbPc = "await"
    /\ \E resp \in SourceResponses : fetchJsonThrows(resp)
    /\ fbOutcomes' = [fbOutcomes EXCEPT ![Len(fbOutcomes)] = Failed]
    /\ fbPc' = "thrown"
    /\ UNCHANGED <<fbSettled, fbCall, fbNmId, fbLimit, fbRequests, fbPartition, fbSkip, fbItems,
                   fbResult, catalogVars, normVars, photoVars, lbdVars, walkVars, storeVars, csvVars, cellVars, verifyVars, handlerVars, appVars>>

\* A page arrives and the walk goes on: the next request is issued, in the
\* same loop or as the first one of the answered loop.
QuestionsPageThenNextRequest ==
    /\ fbCall = "questions"
    /\ fbPc = "await"
    /\ \E resp \in SourceResponses :
          LET batch == batchOfPayload(resp)
              at == afterBatch(fbPartition, fbSkip, Len(fbItems), Len(batch), fbLimit)
          IN /\ ~fetchJsonThrows(resp)
             /\ at.await
             /\ fbOutcomes' = [fbOutcomes EXCEPT ![Len(fbOutcomes)] = Fetched(batch)]
                                  \o <<Pending>>
             /\ fbItems' = fbItems \o batch
             /\ fbPartition' = at.partition
             /\ fbSkip' = at.skip
             /\ fbRequests' = Append(fbRequests, questionsQuery(at.partition, at.skip))
    /\ UNCHANGED <<fbSettled, fbCall, fbNmId, fbLimit, fbPc, fbResult,
                   catalogVars, normVars, photoVars, lbdVars, walkVars, storeVars, csvVars, cellVars, verifyVars, handlerVars, appVars>>

\* A page arrives and both loops are over: return latestByDate(items, limit).
QuestionsPageThenReturn ==
    /\ fbCall = "questions"
    /\ fbPc = "await"
    /\ \E resp \in SourceResponses :
          LET batch == batchOfPayload(resp)
              at == afterBatch(fbPartition, fbSkip, Len(fbItems), Len(batch), fbLimit)
          IN /\ ~fetchJsonThrows(resp)
             /\ ~at.await
             /\ fbOutcomes' = [fbOutcomes EXCEPT ![Len(fbOutcomes)] = Fetched(batch)]
             /\ fbItems' = fbItems \o batch
             /\ fbResult' = <<latestByDate(fbItems \o batch, fbLimit)>>
    /\ fbPc' = "returned"
    /\ UNCHANGED <<fbSettled, fbCall, fbNmId, fbLimit, fbRequests, fbPartition, fbSkip,
                   catalogVars, normVars, photoVars, lbdVars, walkVars, storeVars, csvVars, cellVars, verifyVars, handlerVars, appVars>>

FeedbackNext ==
    \/ ReviewsCall
    \/ ReviewsFetchRejects
    \/ ReviewsFetchResolves
    \/ ReviewsFetchSettlesLate
    \/ QuestionsFirstRequest
    \/ QuestionsReturnAtOnce
    \/ QuestionsPageFails
    \/ QuestionsPageThenNextRequest
    \/ QuestionsPageThenReturn

SpecFeedback == FeedbackInit /\ [][FeedbackNext]_vars

(***************************************************************************)
(* Claims about fetchLatestReviews and fetchAllQuestions, checked under    *)
(* SpecFeedback                                                            *)
(***************************************************************************)
\* Every item the source gave to the call, in request order
FetchedItems ==
    LET Gather[k \in 0..Len(fbOutcomes)] ==
            IF k = 0 THEN <<>> ELSE Gather[k - 1] \o fbOutcomes[k].batch
    IN Gather[Len(fbOutcomes)]

\* C12, as stated: for every limit >= 0 the list returned by
\* fetchLatestReviews and by fetchAllQuestions holds at most limit items.
C12_AtMostLimit ==
    fbPc = "returned" => Len(fbResult[1]) <= fbLimit

\* C12, amended: for every limit >= 1 the returned list holds at most limit
\* items; with limit 0 fetchAllQuestions returns the empty list without a
\* request, and fetchLatestReviews returns the merged items uncut: every
\* item without id and an item for every id.
C12_AtMostLimitFromOne ==
    fbPc = "returned" =>
        /\ fbLimit >= 1 => Len(fbResult[1]) <= fbLimit
        /\ (fbLimit = 0 /\ fbCall = "questions") =>
              fbResult[1] = <<>> /\ fbRequests = <<>>
        /\ (fbLimit = 0 /\ fbCall = "reviews") =>
              \A k \in 1..Len(FetchedItems) :
                  LET item == FetchedItems[k] IN
                  IF HasNonNullId(item)
                  THEN \E i \in 1..Len(fbResult[1]) :
                           /\ HasNonNullId(fbResult[1][i])
                           /\ StringOf(fbResult[1][i].id) = StringOf(item.id)
                  ELSE Occurrences(fbResult[1], item) = Occurrences(FetchedItems, item)

\* A review list cut to its limit: more items fetched than limit = 1 allows
C12_Witness ==
    /\ fbCall = "reviews"
    /\ fbPc = "returned"
    /\ fbLimit = 1
    /\ Len(fbOutcomes[1].batch) = 2
    /\ Len(fbOutcomes[2].batch) = 2
    /\ \A k \in 1..2 : ~HasNonNullId(fbOutcomes[1].batch[k])
    /\ Len(fbResult[1]) = 1

\* C13: fetchLatestReviews issues exactly two requests, the first for the
\* unanswered and the second for the answered partition, each with offset
\* 0, order newest first and page size min(max(limit, 1), 500); both are
\* issued before any response is handled and no other request is issued.
C13_TwoConcurrentRequests ==
    fbCall = "reviews" =>
        /\ fbPc = "start" => fbRequests = <<>> /\ fbOutcomes = <<>>
        /\ fbPc # "start" =>
              /\ Len(fbRequests) = 2
              /\ fbRequests[1].isAnswered = FALSE
              /\ fbRequests[2].isAnswered = TRUE
              /\ \A k \in 1..2 :
                    /\ fbRequests[k].path = "feedbacks"
                    /\ fbRequests[k].skip = 0
                    /\ fbRequests[k].order = "dateDesc"
                    /\ fbRequests[k].take = Min({Max({fbLimit, 1}), 500})
        /\ \A k \in 1..Len(fbOutcomes) :
              fbOutcomes[k].state # "pending" => Len(fbRequests) = 2

\* A call with a limit above 500 has returned: the answered partition
\* answered first, and each request asked for 500 items
C13_Witness ==
    /\ fbCall = "reviews"
    /\ fbPc = "returned"
    /\ fbLimit > 500
    /\ fbRequests[1].take = 500
    /\ fbOutcomes[2].batch # <<>>

\* C14: a failed fetch fails the whole call: with a failed fetch the call
\* has thrown and has no result, whatever the other partition or the pages
\* before gave; a call that has returned has had every fetch it issued
\* succeed.
C14_AnyFailureFailsCall ==
    /\ (\E k \in 1..Len(fbOutcomes) : fbOutcomes[k].state = "failed") =>
           fbPc = "thrown" /\ fbResult = <<>>
    /\ fbPc = "thrown" => fbResult = <<>>
    /\ fbPc = "returned" =>
           /\ fbResult # <<>>
           /\ \A k \in 1..Len(fbOutcomes) : fbOutcomes[k].state = "ok"

\* fetchAllQuestions has thrown on its answered request with the items of
\* the unanswered partition in hand
C14_Witness ==
    /\ fbCall = "questions"
    /\ fbPc = "thrown"
    /\ Len(fbOutcomes) = 2
    /\ fbOutcomes[2].state = "failed"
    /\ fbItems # <<>>
    /\ fbResult = <<>>

\* The number of items the unanswered requests gave
UnansweredTotal ==
    Len(FetchedItems) -
        LET Gather[k \in 0..Len(fbOutcomes)] ==
                IF k = 0 THEN 0
                ELSE Gather[k - 1] +
                     (IF fbRequests[k].isAnswered THEN Len(fbOutcomes[k].batch) ELSE 0)
        IN Gather[Len(fbOutcomes)]

\* All unanswered requests come before all answered requests
UnansweredFirst ==
    \A i, j \in 1..Len(fbRequests) :
        (fbRequests[i].isAnswered /\ ~fbRequests[j].isAnswered) => j < i

WalkLimits == {0, 1, 1000, 1500, 2001, 10000, 20000}
BatchLengths == {0, 1, QuestionsTake, QuestionsTake + 1}

walkQuery(part, skip) ==
    feedbackQuery("questions", wkNmId, part = "answered", QuestionsTake, skip)

\* The call fetchAllQuestions(token, nmId, limit) has been made.
WalkInit ==
    /\ wkNmId \in NmIds
    /\ wkLimit \in WalkLimits
    /\ wkPc = "start"
    /\ wkPartition = "unanswered"
    /\ wkSkip = 0
    /\ wkTotal = 0
    /\ wkRequest = <<>>
    /\ wkLastPage = <<>>
    /\ wkIssued = [unanswered |-> 0, answered |-> 0]
    /\ CatalogIdle /\ NormIdle /\ PhotoIdle /\ LbdIdle /\ FeedbackIdle /\ StoreIdle /\ CsvIdle /\ CellIdle /\ VerifyIdle /\ HandlerIdle /\ AppIdle

\* The call runs to its first await: a request of the unanswered loop.
WalkFirstRequest ==
    /\ wkPc = "start"
    /\ LET at == loopHead("unanswered", 0, 0, wkLimit) IN
       /\ at.await
       /\ wkPartition' = at.partition
       /\ wkSkip' = at.skip
       /\ wkRequest' = <<walkQuery(at.partition, at.skip)>>
       /\ wkIssued' = [wkIssued EXCEPT ![at.partition] = @ + 1]
    /\ wkPc' = "await"
    /\ UNCHANGED <<wkNmId, wkLimit, wkTotal, wkLastPage,
                   catalogVars, normVars, photoVars, lbdVars, feedbackVars, storeVars, csvVars, cellVars, verifyVars, handlerVars, appVars>>

\* Neither loop is entered: the call returns.
WalkReturnAtOnce ==
    /\ wkPc = "start"
    /\ ~loopHead("unanswered", 0, 0, wkLimit).await
    /\ wkPc' = "returned"
    /\ UNCHANGED <<wkIssued, wkNmId, wkLimit, wkPartition, wkSkip, wkTotal, wkRequest, wkLastPage,
                   catalogVars, normVars, photoVars, lbdVars, feedbackVars, storeVars, csvVars, cellVars, verifyVars, handlerVars, appVars>>

\* fetchJson throws inside the awaited fetchQuestions: the call throws.
WalkPageFails ==
    /\ wkPc = "await"
    /\ wkRequest' = <<>>
    /\ wkPc' = "thrown"
    /\ UNCHANGED <<wkIssued, wkNmId, wkLimit, wkPartition, wkSkip, wkTotal, wkLastPage,
                   catalogVars, normVars, photoVars, lbdVars, feedbackVars, storeVars, csvVars, cellVars, verifyVars, handlerVars, appVars>>

\* A page of `count` items arrives and the walk goes on: the next request
\* is issued, in the same loop or as the first one of the answered loop.
WalkPageThenNextRequest ==
    /\ wkPc = "await"
    /\ \E count \in BatchLengths :
          LET at == afterBatch(wkPartition, wkSkip, wkTotal, count, wkLimit) IN
          /\ at.await
          /\ wkLastPage' = <<[request |-> wkRequest[1], count |-> count]>>
          /\ wkTotal' = wkTotal + count
          /\ wkPartition' = at.partition
          /\ wkSkip' = at.skip
          /\ wkRequest' = <<walkQuery(at.partition, at.skip)>>
          /\ wkIssued' = [wkIssued EXCEPT ![at.partition] = @ + 1]
    /\ UNCHANGED <<wkNmId, wkLimit, wkPc,
                   catalogVars, normVars, photoVars, lbdVars, feedbackVars, storeVars, csvVars, cellVars, verifyVars, handlerVars, appVars>>

\* A page of `count` items arrives and both loops are over: the call
\* returns latestByDate(items, limit).
WalkPageThenReturn ==
    /\ wkPc = "await"
    /\ \E count \in BatchLengths :
          LET at == afterBatch(wkPartition, wkSkip, wkTotal, count, wkLimit) IN
          /\ ~at.await
          /\ wkLastPage' = <<[request |-> wkRequest[1], count |-> count]>>
          /\ wkTotal' = wkTotal + count
    /\ wkRequest' = <<>>
    /\ wkPc' = "returned"
    /\ UNCHANGED <<wkIssued, wkNmId, wkLimit, wkPartition, wkSkip,
                   catalogVars, normVars, photoVars, lbdVars, feedbackVars, storeVars, csvVars, cellVars, verifyVars, handlerVars, appVars>>

WalkNext ==
    \/ WalkFirstRequest
    \/ WalkReturnAtOnce
    \/ WalkPageFails
    \/ WalkPageThenNextRequest
    \/ WalkPageThenReturn

SpecWalk == WalkInit /\ [][WalkNext]_vars

(***************************************************************************)
(* Claims about the page walk of fetchAllQuestions, checked under SpecWalk *)
(***************************************************************************)
\* The request awaited continues the partition of the page answered last
SamePartitionGoesOn ==
    /\ wkRequest # <<>>
    /\ wkLastPage # <<>>
    /\ wkRequest[1].isAnswered = wkLastPage[1].request.isAnswered

\* After the page answered last its partition is walked no further
PartitionStopped ==
    /\ wkLastPage # <<>>
    /\ wkPc \in {"await", "returned"}
    /\ ~SamePartitionGoesOn

\* One of the three reasons to stop holds after the page answered last:
\* fewer than 1000 items, the total no longer below limit, the offset past
\* 10000
StopReasonHolds ==
    \/ wkLastPage[1].count < 1000
    \/ ~(wkTotal < wkLimit)
    \/ wkLastPage[1].request.skip + wkLastPage[1].count > 10000

\* C15: every request has page size 1000; the first request of a partition
\* has offset 0, a later one the previous offset plus the number of items
\* of the previous page; and after a page the partition is walked no
\* further exactly when the page had fewer than 1000 items, or the total is
\* no longer below limit, or the offset has passed 10000.
C15_OffsetsAndStops ==
    /\ wkRequest # <<>> =>
          /\ wkRequest[1].take = 1000
          /\ wkRequest[1].skip =
                IF SamePartitionGoesOn
                THEN wkLastPage[1].request.skip + wkLastPage[1].count
                ELSE 0
          /\ wkTotal < wkLimit
    /\ SamePartitionGoesOn => ~StopReasonHolds
    /\ PartitionStopped => StopReasonHolds

\* The eleventh request of the unanswered partition is awaited: ten full
\* pages before it, offset 10000
C15_Witness ==
    /\ wkPc = "await"
    /\ wkRequest[1].isAnswered = FALSE
    /\ wkRequest[1].skip = 10000
    /\ wkLastPage # <<>>
    /\ wkLastPage[1].count = 1000
    /\ wkLastPage[1].request.skip = 9000

(***************************************************************************)
(* The key/value store: getValue, setValue, deleteValue over the KV        *)
(* backend and the in-process memoryStore (SpecStore).  The calls are      *)
(* made one after another, each awaited before the next.                   *)
(***************************************************************************)
MaxStoreCalls == 3

StoreKeys == {"user:1:wb_token", "user:2:wb_token"}
StoreValues == {"token1", "token2"}

\* A key that a Map, or the backend, does not hold
Absent == "absent"

\* The null that getValue returns for it
StoreNull == "null"

EmptyStore == [k \in StoreKeys |-> Absent]

\* Boolean(process.env.KV_REST_API_URL && process.env.KV_REST_API_TOKEN)
hasKV == kvUrl /\ kvToken

\* x ?? null
OrNull(x) == IF x = Absent THEN StoreNull ELSE x

\* What the process starts with: an empty memoryStore, the two settings
\* present or not, a backend that is empty or holds a value saved before.
StoreInit ==
    /\ kvUrl \in BOOLEAN
    /\ kvToken \in BOOLEAN
    /\ memoryStore = EmptyStore
    /\ remoteStore \in {EmptyStore, [EmptyStore EXCEPT !["user:1:wb_token"] = "token1"]}
    /\ storeLog = <<>>
    /\ CatalogIdle /\ NormIdle /\ PhotoIdle /\ LbdIdle /\ FeedbackIdle /\ WalkIdle /\ CsvIdle /\ CellIdle /\ VerifyIdle /\ HandlerIdle /\ AppIdle

\* One call of the store, as storeLog keeps it: `remote` is "none" when no
\* KV command was sent, else "ok" or "failed"; `memory` is memoryStore
\* after the call.
StoreCall(op, key, value, remote, threw, result, memory) ==
    [op |-> op, key |-> key, value |-> value, remote |-> remote, threw |-> threw,
     result |-> result, memory |-> memory]

\* getValue without KV settings: return memoryStore.get(key) ?? null
GetValueMemory ==
    /\ Len(storeLog) < MaxStoreCalls
    /\ ~hasKV
    /\ \E key \in StoreKeys :
          storeLog' = Append(storeLog,
              StoreCall("get", key, Absent, "none", FALSE,
                        OrNull(memoryStore[key]), memoryStore))
    /\ UNCHANGED <<kvUrl, kvToken, memoryStore, remoteStore,
                   catalogVars, normVars, photoVars, lbdVars, feedbackVars, walkVars, csvVars, cellVars, verifyVars, handlerVars, appVars>>

\* getValue, the GET command answered: return result ?? null
GetValueRemote ==
    /\ Len(storeLog) < MaxStoreCalls
    /\ hasKV
    /\ \E key \in StoreKeys :
          storeLog' = Append(storeLog,
              StoreCall("get", key, Absent, "ok", FALSE,
                        OrNull(remoteStore[key]), memoryStore))
    /\ UNCHANGED <<kvUrl, kvToken, memoryStore, remoteStore,
                   catalogVars, normVars, photoVars, lbdVars, feedbackVars, walkVars, csvVars, cellVars, verifyVars, handlerVars, appVars>>

\* The error of the GET command passed on to the caller
GetValueFallbackThrows ==
    /\ Len(storeLog) < MaxStoreCalls
    /\ hasKV
    /\ \E key \in StoreKeys :
          storeLog' = Append(storeLog,
              StoreCall("get", key, Absent, "failed", TRUE, Absent, memoryStore))
    /\ UNCHANGED <<kvUrl, kvToken, memoryStore, remoteStore,
                   catalogVars, normVars, photoVars, lbdVars, feedbackVars, walkVars, csvVars, cellVars, verifyVars, handlerVars, appVars>>

\* getValue, the GET command failed (kvCommand throws): the catch returns
\* memoryStore.get(key) ?? null
GetValueFallback ==
    /\ Len(storeLog) < MaxStoreCalls
    /\ hasKV
    /\ \E key \in StoreKeys :
          storeLog' = Append(storeLog,
              StoreCall("get", key, Absent, "failed", FALSE,
                        OrNull(memoryStore[key]), memoryStore))
    /\ UNCHANGED <<kvUrl, kvToken, memoryStore, remoteStore,
                   catalogVars, normVars, photoVars, lbdVars, feedbackVars, walkVars, csvVars, cellVars, verifyVars, handlerVars, appVars>>

\* true returned without the value being kept
SetValueMemoryDropped ==
    /\ Len(storeLog) < MaxStoreCalls
    /\ ~hasKV
    /\ \E key \in StoreKeys, value \in StoreValues :
          storeLog' = Append(storeLog,
              StoreCall("set", key, value, "none", FALSE, TRUE, memoryStore))
    /\ UNCHANGED <<kvUrl, kvToken, memoryStore, remoteStore,
                   catalogVars, normVars, photoVars, lbdVars, feedbackVars, walkVars, csvVars, cellVars, verifyVars, handlerVars, appVars>>

\* setValue without KV settings: memoryStore.set(key, value); return true
SetValueMemory ==
    /\ Len(storeLog) < MaxStoreCalls
    /\ ~hasKV
    /\ \E key \in StoreKeys, value \in StoreValues :
          LET memory == [memoryStore EXCEPT ![key] = value] IN
          /\ memoryStore' = memory
          /\ storeLog' = Append(storeLog,
                 StoreCall("set", key, value, "none", FALSE, TRUE, memory))
    /\ UNCHANGED <<kvUrl, kvToken, remoteStore,
                   catalogVars, normVars, photoVars, lbdVars, feedbackVars, walkVars, csvVars, cellVars, verifyVars, handlerVars, appVars>>

\* setValue, the SET command answered: return true; memoryStore is not
\* written.
SetValueRemote ==
    /\ Len(storeLog) < MaxStoreCalls
    /\ hasKV
    /\ \E key \in StoreKeys, value \in StoreValues :
          /\ remoteStore' = [remoteStore EXCEPT ![key] = value]
          /\ storeLog' = Append(storeLog,
                 StoreCall("set", key, value, "ok", FALSE, TRUE, memoryStore))
    /\ UNCHANGED <<kvUrl, kvToken, memoryStore,
                   catalogVars, normVars, photoVars, lbdVars, feedbackVars, walkVars, csvVars, cellVars, verifyVars, handlerVars, appVars>>

\* setValue, the SET command failed: memoryStore.set(key, value); return
\* false
SetValueFallback ==
    /\ Len(storeLog) < MaxStoreCalls
    /\ hasKV
    /\ \E key \in StoreKeys, value \in StoreValues :
          LET memory == [memoryStore EXCEPT ![key] = value] IN
          /\ memoryStore' = memory
          /\ storeLog' = Append(storeLog,
                 StoreCall("set", key, value, "failed", FALSE, FALSE, memory))
    /\ UNCHANGED <<kvUrl, kvToken, remoteStore,
                   catalogVars, normVars, photoVars, lbdVars, feedbackVars, walkVars, csvVars, cellVars, verifyVars, handlerVars, appVars>>

\* deleteValue without KV settings: return memoryStore.delete(key)
DeleteValueMemory ==
    /\ Len(storeLog) < MaxStoreCalls
    /\ ~hasKV
    /\ \E key \in StoreKeys :
          LET memory == [memoryStore EXCEPT ![key] = Absent] IN
          /\ memoryStore' = memory
          /\ storeLog' = Append(storeLog,
                 StoreCall("delete", key, Absent, "none", FALSE,
                           memoryStore[key] # Absent, memory))
    /\ UNCHANGED <<kvUrl, kvToken, remoteStore,
                   catalogVars, normVars, photoVars, lbdVars, feedbackVars, walkVars, csvVars, cellVars, verifyVars, handlerVars, appVars>>

\* deleteValue, the DEL command answered: return true; memoryStore is not
\* touched.
DeleteValueRemote ==
    /\ Len(storeLog) < MaxStoreCalls
    /\ hasKV
    /\ \E key \in StoreKeys :
          /\ remoteStore' = [remoteStore EXCEPT ![key] = Absent]
          /\ storeLog' = Append(storeLog,
                 StoreCall("delete", key, Absent, "ok", FALSE, TRUE, memoryStore))
    /\ UNCHANGED <<kvUrl, kvToken, memoryStore,
                   catalogVars, normVars, photoVars, lbdVars, feedbackVars, walkVars, csvVars, cellVars, verifyVars, handlerVars, appVars>>

\* deleteValue, the DEL command failed: return memoryStore.delete(key)
DeleteValueFallback ==
    /\ Len(storeLog) < MaxStoreCalls
    /\ hasKV
    /\ \E key \in StoreKeys :
          LET memory == [memoryStore EXCEPT ![key] = Absent] IN
          /\ memoryStore' = memory
          /\ storeLog' = Append(storeLog,
                 StoreCall("delete", key, Absent, "failed", FALSE,
                           memoryStore[key] # Absent, memory))
    /\ UNCHANGED <<kvUrl, kvToken, remoteStore,
                   catalogVars, normVars, photoVars, lbdVars, feedbackVars, walkVars, csvVars, cellVars, verifyVars, handlerVars, appVars>>

StoreNext ==
    \/ GetValueMemory
    \/ GetValueRemote
    \/ GetValueFallback
    \/ SetValueMemory
    \/ SetValueRemote
    \/ SetValueFallback
    \/ DeleteValueMemory
    \/ DeleteValueRemote
    \/ DeleteValueFallback

SpecStore == StoreInit /\ [][StoreNext]_vars

(***************************************************************************)
(* Claims about the store, checked under SpecStore                         *)
(***************************************************************************)
\* The calls before the m-th that set or delete the key of the m-th
WritesBefore(m) ==
    {i \in 1..(m - 1) : /\ storeLog[i].key = storeLog[m].key
                         /\ storeLog[i].op \in {"set", "delete"}}

\* C17: without the KV settings no call sends a KV command, setValue
\* returns true, getValue returns the value of the last setValue of the key
\* when no set or delete of the key came after it, and null for a key never
\* set.
C17_MemoryOnlyWithoutSettings ==
    ~(kvUrl /\ kvToken) =>
        \A m \in 1..Len(storeLog) :
            LET call == storeLog[m]
                writes == WritesBefore(m)
            IN /\ call.remote = "none"
               /\ call.op = "set" => call.result = TRUE
               /\ (call.op = "get" /\ writes # {} /\ storeLog[Max(writes)].op = "set") =>
                      call.result = storeLog[Max(writes)].value
               /\ (call.op = "get" /\ \A i \in writes : storeLog[i].op # "set") =>
                      call.result = "null"

\* With one setting missing: a value set and read back, another key read
C17_Witness ==
    /\ kvUrl /\ ~kvToken
    /\ Len(storeLog) = 3
    /\ storeLog[1].op = "set" /\ storeLog[1].result = TRUE
    /\ storeLog[2].op = "get" /\ storeLog[2].key = storeLog[1].key
    /\ storeLog[2].result = storeLog[1].value
    /\ storeLog[3].op = "get" /\ storeLog[3].key # storeLog[1].key
    /\ storeLog[3].result = "null"

\* memoryStore before the m-th call
MemoryBefore(m) == IF m = 1 THEN [k \in StoreKeys |-> "absent"] ELSE storeLog[m - 1].memory

\* C18: with the KV settings present and the KV command failed, setValue
\* has written the value into memoryStore and returned false, getValue has
\* returned what memoryStore holds for the key (null when nothing), and
\* deleteValue has removed the key from memoryStore and returned whether it
\* was there; no call has thrown.
C18_FallbackOnRemoteFailure ==
    \A m \in 1..Len(storeLog) :
        LET call == storeLog[m] IN
        /\ ~call.threw
        /\ call.remote = "failed" =>
              /\ kvUrl /\ kvToken
              /\ call.op = "set" =>
                    /\ call.result = FALSE
                    /\ call.memory = [MemoryBefore(m) EXCEPT ![call.key] = call.value]
              /\ call.op = "get" =>
                    /\ call.result = IF MemoryBefore(m)[call.key] = "absent" THEN "null"
                                      ELSE MemoryBefore(m)[call.key]
                    /\ call.memory = MemoryBefore(m)
              /\ call.op = "delete" =>
                    /\ call.result = (MemoryBefore(m)[call.key] # "absent")
                    /\ call.memory = [MemoryBefore(m) EXCEPT ![call.key] = "absent"]

\* Three failed commands in a row: a set that returns false, a get that
\* returns the value from memoryStore, a delete that returns true
C18_Witness ==
    /\ Len(storeLog) = 3
    /\ \A m \in 1..3 : storeLog[m].remote = "failed" /\ storeLog[m].key = storeLog[1].key
    /\ storeLog[1].op = "set" /\ storeLog[1].result = FALSE
    /\ storeLog[2].op = "get" /\ storeLog[2].result = storeLog[1].value
    /\ storeLog[3].op = "delete" /\ storeLog[3].result = TRUE
    /\ memoryStore[storeLog[1].key] = "absent"

\* C19: after setValue(k, v1) and then setValue(k, v2), with no other set
\* or delete of k, every later getValue(k) returns v2, whatever the KV
\* commands of the three calls did.
C19_ResaveOverwrites ==
    \A i, j, m \in 1..Len(storeLog) :
        ( /\ i < j /\ j < m
          /\ storeLog[i].op = "set" /\ storeLog[j].op = "set" /\ storeLog[m].op = "get"
          /\ storeLog[j].key = storeLog[i].key /\ storeLog[m].key = storeLog[i].key
          /\ WritesBefore(m) \cap (i..m) = {i, j} )
        => storeLog[m].result = storeLog[j].value

\* A token saved while the SET command failed, saved again with the command
\* answered, read while the GET command failed: the first token comes back
C19_StaleTokenRead ==
    /\ Len(storeLog) = 3
    /\ \A m \in 1..3 : storeLog[m].key = "user:1:wb_token"
    /\ storeLog[1].op = "set" /\ storeLog[1].value = "token1" /\ storeLog[1].remote = "failed"
    /\ storeLog[2].op = "set" /\ storeLog[2].value = "token2" /\ storeLog[2].remote = "ok"
    /\ storeLog[3].op = "get" /\ storeLog[3].remote = "failed"
    /\ storeLog[3].result = "token1"

(***************************************************************************)
(* toCsv (src/api/_lib/csv.js): flattenRow, csvEscape, toCsv (SpecCsv)     *)
(*                                                                         *)
(* An object is the sequence of its entries in insertion order, an array   *)
(* the sequence of its items; a flattened row is the sequence of its       *)
(* [key, value] entries in insertion order.  Text is a sequence of         *)
(* characters, with "BOM" for U+FEFF.                                      *)
(***************************************************************************)
MaxCsvRows == 2

CsvObject(entries) == [t |-> "object", n |-> 0, s |-> <<>>, entries |-> entries]
CsvArray(items) == [t |-> "array", n |-> 0, s |-> <<>>, entries |-> items]
Entry(key, value) == [key |-> key, value |-> value]

\* Array.prototype.join
RECURSIVE Join(_, _)
Join(texts, sep) ==
    IF texts = <<>> THEN <<>>
    ELSE IF Len(texts) = 1 THEN texts[1]
    ELSE texts[1] \o sep \o Join(Tail(texts), sep)

\* JSON.stringify of an array of numbers and of strings that need no escape
JsonStringify(value) ==
    LET item(v) == IF v.t = "string" THEN <<"\"">> \o v.s \o <<"\"">> ELSE StringOf(v)
    IN <<"[">> \o Join([i \in 1..Len(value.entries) |-> item(value.entries[i])], <<",">>)
           \o <<"]">>

\* String(value): of an array, its items joined by commas
csvString(value) ==
    CASE value.t = "array" ->
            Join([i \in 1..Len(value.entries) |-> StringOf(value.entries[i])], <<",">>)
      [] value.t = "boolean" ->
            IF value.n = 1 THEN <<"t", "r", "u", "e">> ELSE <<"f", "a", "l", "s", "e">>
      [] OTHER -> StringOf(value)

\* nextKey without the prefix
nextKeyOfNoPrefix(prefix, key) == key

\* const nextKey = prefix ? `${prefix}.${key}` : key
nextKeyOf(prefix, key) == IF prefix # <<>> THEN prefix \o <<".">> \o key ELSE key

\* The loop of flattenRow over Object.entries(obj), with the recursive call
\* for a value that is an object and no array
RECURSIVE flattenEntries(_, _, _)
flattenEntries(entries, prefix, output) ==
    IF entries = <<>> THEN output
    ELSE LET key == Head(entries).key
             value == Head(entries).value
             nextKey == nextKeyOf(prefix, key)
             after ==
                 IF value.t = "object" THEN flattenEntries(value.entries, nextKey, output)
                 ELSE IF value.t = "array"
                 THEN MapSet(output, nextKey, Str(JsonStringify(value)))
                 ELSE MapSet(output, nextKey, value)
         IN flattenEntries(Tail(entries), prefix, after)

\* function flattenRow(obj, prefix = "", output = {})
flattenRow(obj) ==
    IF obj.t = "object" THEN flattenEntries(obj.entries, <<>>, <<>>)
    ELSE MapSet(<<>>, <<"v", "a", "l", "u", "e">>, obj)

\* str.replace(/"/g, '""')
RECURSIVE doubleQuotes(_)
doubleQuotes(cs) ==
    IF cs = <<>> THEN <<>>
    ELSE (IF Head(cs) = "\"" THEN <<"\"", "\"">> ELSE <<Head(cs)>>) \o doubleQuotes(Tail(cs))

\* csvEscape without the test for "\r"
csvEscapeNoCarriageReturn(value) ==
    IF value.t \in {"null", "undefined"} THEN <<>>
    ELSE LET str == csvString(value) IN
         IF \E c \in {"\"", ",", "\n"} : Includes(str, c)
         THEN <<"\"">> \o doubleQuotes(str) \o <<"\"">>
         ELSE str

\* function csvEscape(value)
csvEscape(value) ==
    IF value.t \in {"null", "undefined"} THEN <<>>
    ELSE LET str == csvString(value) IN
         IF \E c \in {"\"", ",", "\n", "\r"} : Includes(str, c)
         THEN <<"\"">> \o doubleQuotes(str) \o <<"\"">>
         ELSE str

\* The characters of the keys and values in ascending order of their UTF-16
\* code units
CodeUnitOrder ==
    << "\n", "\r", "\"", ",", ".", "0", "1", "2", "3", "4", "5", "6", "7", "8", "9",
       "A", "B", "C", "[", "]", "_", "a", "b", "c", "d", "e", "h", "i", "l", "q", "r",
       "s", "t", "u", "v", "x", "y" >>

CodeUnitRank(c) == CHOOSE i \in 1..Len(CodeUnitOrder) : CodeUnitOrder[i] = c

\* a < b for strings, compared code unit by code unit: the order of
\* Array.prototype.sort without a comparator
RECURSIVE OrdinalLess(_, _)
OrdinalLess(a, b) ==
    IF b = <<>> THEN FALSE
    ELSE IF a = <<>> THEN TRUE
    ELSE IF Head(a) = Head(b) THEN OrdinalLess(Tail(a), Tail(b))
    ELSE CodeUnitRank(Head(a)) < CodeUnitRank(Head(b))

\* The keys of the flattened rows in the order a Set takes them: each one
\* at its first occurrence
RECURSIVE keySet(_, _)
keySet(flattened, set) ==
    IF flattened = <<>> THEN set
    ELSE LET row == Head(flattened)
             Add[k \in 0..Len(row)] ==
                 IF k = 0 THEN set
                 ELSE IF \E i \in 1..Len(Add[k - 1]) : Add[k - 1][i] = row[k].key
                 THEN Add[k - 1]
                 ELSE Append(Add[k - 1], row[k].key)
         IN keySet(Tail(flattened), Add[Len(row)])

\* The headers left in the order of their first occurrence
sortHeadersNot(keys) == keys

\* Array.from(set).sort()
sortHeaders(keys) == StableSort(keys, OrdinalLess)

\* row[key]: undefined when the flattened row has no such key
cellValue(row, key) ==
    IF \E i \in 1..Len(row) : row[i].key = key
    THEN row[CHOOSE i \in 1..Len(row) : row[i].key = key].value
    ELSE Undefined

\* function toCsv(rows)
toCsv(rs) ==
    LET flattened == [k \in 1..Len(rs) |-> flattenRow(rs[k])]
        headers == sortHeaders(keySet(flattened, <<>>))
        lineOf(row) ==
            Join([j \in 1..Len(headers) |-> csvEscape(cellValue(row, headers[j]))], <<",">>)
        lines == <<Join(headers, <<",">>)>> \o [k \in 1..Len(rs) |-> lineOf(flattened[k])]
    IN <<"BOM">> \o Join(lines, <<"\n">>)

\* Rows: nested objects, a key in capitals, keys not in order, a key that
\* is also a nested path, an array, null, texts with a comma, a quote and a
\* line break, a row that is no object, objects without entries.
CsvInputRows ==
    { CsvObject(<<Entry(<<"a">>, Num(1)),
                  Entry(<<"b">>, CsvObject(<<Entry(<<"c">>, Num(2))>>))>>),
      CsvObject(<<Entry(<<"a">>, Num(3))>>),
      CsvObject(<<Entry(<<"b">>, CsvObject(<<Entry(<<"c">>, Str(<<"x", ",", "y">>))>>)),
                  Entry(<<"a">>, Null)>>),
      CsvObject(<<Entry(<<"c">>, Str(<<"x", "\n", "y">>)),
                  Entry(<<"B">>, CsvArray(<<Num(1), Num(2)>>))>>),
      CsvObject(<<Entry(<<"b">>, CsvObject(<<Entry(<<"c">>, Num(2))>>)),
                  Entry(<<"b", ".", "c">>, Str(<<"q", "\"">>))>>),
      CsvObject(<<Entry(<<"a">>, CsvObject(<<>>)), Entry(<<"a", "b">>, Bool(TRUE))>>),
      CsvObject(<<>>),
      Num(5) }

CsvInit ==
    /\ csvRows \in SeqsUpTo(CsvInputRows, MaxCsvRows)
    /\ csvResult = <<>>
    /\ CatalogIdle /\ NormIdle /\ PhotoIdle /\ LbdIdle
    /\ FeedbackIdle /\ WalkIdle /\ StoreIdle /\ CellIdle /\ VerifyIdle /\ HandlerIdle /\ AppIdle

ToCsvCall ==
    /\ csvResult = <<>>
    /\ csvResult' = <<toCsv(csvRows)>>
    /\ UNCHANGED <<csvRows, catalogVars, normVars, photoVars, lbdVars,
                   feedbackVars, walkVars, storeVars, cellVars, verifyVars, handlerVars, appVars>>

CsvNext == ToCsvCall

SpecCsv == CsvInit /\ [][CsvNext]_vars

(***************************************************************************)
(* Claims about toCsv, checked under SpecCsv                               *)
(***************************************************************************)
\* The flattened paths of a row
PathsOf(row) == {flattenRow(row)[i].key : i \in 1..Len(flattenRow(row))}

\* The union of the paths of all rows, as the sequence in ascending order
HeaderOf(rs) ==
    LET paths == UNION {PathsOf(rs[k]) : k \in 1..Len(rs)}
    IN CHOOSE h \in [1..Cardinality(paths) -> paths] :
           \A i, j \in 1..Cardinality(paths) : i < j => OrdinalLess(h[i], h[j])

\* The cell of a row under a path: empty where the row lacks the path
CellOf(row, path) ==
    IF path \in PathsOf(row)
    THEN LET flat == flattenRow(row)
         IN csvEscape(flat[CHOOSE i \in 1..Len(flat) : flat[i].key = path].value)
    ELSE <<>>

\* The example of the claim: [{a:1,b:{c:2}},{a:3}]
C20_Example ==
    << CsvObject(<<Entry(<<"a">>, Num(1)),
                   Entry(<<"b">>, CsvObject(<<Entry(<<"c">>, Num(2))>>))>>),
       CsvObject(<<Entry(<<"a">>, Num(3))>>) >>

MaxCellLen == 3

\* The characters of the cell texts: a plain one, and the four that make
\* csvEscape quote
EscapeChars == {"x", "\"", ",", "\n", "\r"}

\* Cell values: what flattenRow leaves in a row (null, numbers, booleans,
\* strings, the array of a row that is an array), and undefined for a
\* missing key
EscapeValues ==
    {Null, Undefined, Num(5), Num(0), NaN, Bool(TRUE), Bool(FALSE),
     CsvArray(<<Num(1)>>), CsvArray(<<Num(1), Num(2)>>)}
        \cup {Str(cs) : cs \in SeqsUpTo(EscapeChars, MaxCellLen)}

EscapeInit ==
    /\ escValue \in {<<v>> : v \in EscapeValues}
    /\ escResult = <<>>
    /\ flatRow = <<>> /\ flatResult = <<>>
    /\ CatalogIdle /\ NormIdle /\ PhotoIdle /\ LbdIdle
    /\ FeedbackIdle /\ WalkIdle /\ StoreIdle /\ CsvIdle /\ VerifyIdle /\ HandlerIdle /\ AppIdle

CsvEscapeCall ==
    /\ escResult = <<>>
    /\ escResult' = <<csvEscape(escValue[1])>>
    /\ UNCHANGED <<escValue, flatRow, flatResult, catalogVars, normVars, photoVars,
                   lbdVars, feedbackVars, walkVars, storeVars, csvVars, verifyVars, handlerVars, appVars>>

EscapeNext == CsvEscapeCall

SpecEscape == EscapeInit /\ [][EscapeNext]_vars

(***************************************************************************)
(* Claims about csvEscape, checked under SpecEscape                        *)
(***************************************************************************)
\* The text has one of the four characters that call for quoting
NeedsQuoting(text) == \E i \in 1..Len(text) : text[i] \in {"\"", ",", "\r", "\n"}

\* The number of double quotes among the first n characters of the text
QuotesBefore(text, n) == Cardinality({i \in 1..n : text[i] = "\""})

\* out is the text between two double quotes, each double quote of the
\* text written twice and every other character once, in order
IsQuoted(text, out) ==
    /\ Len(out) = Len(text) + QuotesBefore(text, Len(text)) + 2
    /\ out[1] = "\"" /\ out[Len(out)] = "\""
    /\ \A i \in 1..Len(text) :
          LET at == i + 1 + QuotesBefore(text, i - 1)
          IN /\ out[at] = text[i]
             /\ text[i] = "\"" => out[at + 1] = "\""

\* C21: csvEscape renders null and undefined as the empty string, a value
\* whose text holds a double quote, a comma, a carriage return or a line
\* feed as that text within double quotes with every double quote of the
\* text doubled, and every other value as its text unchanged.
C21_EscapeByContent ==
    escResult # <<>> =>
        LET value == escValue[1]
            out == escResult[1]
        IN IF value.t \in {"null", "undefined"} THEN out = <<>>
           ELSE IF NeedsQuoting(csvString(value)) THEN IsQuoted(csvString(value), out)
           ELSE out = csvString(value)

\* A string with a carriage return and a double quote has been escaped
C21_Witness ==
    /\ escResult # <<>>
    /\ escValue[1] = Str(<<"x", "\r", "\"">>)
    /\ escResult[1] = <<"\"", "x", "\r", "\"", "\"", "\"">>

(***************************************************************************)
(* flattenRow on one row (SpecFlatten)                                     *)
(***************************************************************************)
MaxFields == 2

\* Field values: scalars, null, arrays (one empty), and records nested one
\* and two levels deep, one of them without fields
FlattenValues ==
    { Num(1), Null, Str(<<"x">>), CsvArray(<<Num(1), Num(2)>>), CsvObject(<<>>),
      CsvObject(<<Entry(<<"c">>, Num(2))>>),
      CsvObject(<<Entry(<<"c">>, CsvObject(<<Entry(<<"a">>, Num(3))>>)),
                  Entry(<<"a">>, CsvArray(<<>>))>>) }

\* Fields: the keys a and b with every value, and a key that is itself a
\* dotted path
FlattenFields ==
    {Entry(key, value) : key \in {<<"a">>, <<"b">>}, value \in FlattenValues}
        \cup {Entry(<<"b", ".", "c">>, Str(<<"q">>))}

\* Rows: records of up to MaxFields fields with different keys, and rows
\* that are no record
FlattenRows ==
    {CsvObject(fs) : fs \in {s \in SeqsUpTo(FlattenFields, MaxFields) :
                                \A i, j \in 1..Len(s) : i # j => s[i].key # s[j].key}}
        \cup {Num(5), Str(<<"x">>), Bool(TRUE), Null, Undefined,
              CsvArray(<<Num(1), Num(2)>>), CsvArray(<<>>)}

FlattenInit ==
    /\ flatRow \in {<<row>> : row \in FlattenRows}
    /\ flatResult = <<>>
    /\ escValue = <<>> /\ escResult = <<>>
    /\ CatalogIdle /\ NormIdle /\ PhotoIdle /\ LbdIdle
    /\ FeedbackIdle /\ WalkIdle /\ StoreIdle /\ CsvIdle /\ VerifyIdle /\ HandlerIdle /\ AppIdle

FlattenRowCall ==
    /\ flatResult = <<>>
    /\ flatResult' = <<flattenRow(flatRow[1])>>
    /\ UNCHANGED <<flatRow, escValue, escResult, catalogVars, normVars, photoVars,
                   lbdVars, feedbackVars, walkVars, storeVars, csvVars, verifyVars, handlerVars, appVars>>

FlattenNext == FlattenRowCall

SpecFlatten == FlattenInit /\ [][FlattenNext]_vars

(***************************************************************************)
(* Claims about flattenRow, checked under SpecFlatten                      *)
(***************************************************************************)
\* The leaves of a record in the order of its fields, each with the
\* dot-joined path of its keys: every value that is no record (a scalar,
\* null or an array)
RECURSIVE LeavesOf(_, _)
LeavesOf(fields, path) ==
    IF fields = <<>> THEN <<>>
    ELSE LET field == Head(fields)
             here == IF path = <<>> THEN field.key ELSE path \o <<".">> \o field.key
         IN (IF field.value.t = "object" THEN LeavesOf(field.value.entries, here)
             ELSE <<[path |-> here, value |-> field.value]>>)
                \o LeavesOf(Tail(fields), path)

\* What a column holds for a leaf: the JSON text of an array, the value
\* itself otherwise
ColumnOf(value) == IF value.t = "array" THEN Str(JsonStringify(value)) ELSE value

\* The places of the columns named path
ColumnsNamed(out, path) == {k \in 1..Len(out) : out[k].key = path}

\* The row that is no record yields the one column "value"; the columns of
\* a record are named by the paths of its leaves, once each
OneColumnForEachPath(row, out) ==
    IF row.t # "object" THEN out = <<[key |-> <<"v", "a", "l", "u", "e">>, value |-> row]>>
    ELSE LET leaves == LeavesOf(row.entries, <<>>)
         IN /\ \A i \in 1..Len(leaves) : Cardinality(ColumnsNamed(out, leaves[i].path)) = 1
            /\ \A k \in 1..Len(out) : \E i \in 1..Len(leaves) : leaves[i].path = out[k].key

\* C22 as stated: every leaf of a record is in the output under the
\* dot-joined path of its keys, an array as its JSON text; a row that is no
\* record yields exactly one column named value.
C22_EveryLeafUnderItsPath ==
    flatResult # <<>> =>
        LET row == flatRow[1]
            out == flatResult[1]
        IN /\ OneColumnForEachPath(row, out)
           /\ row.t = "object" =>
                 LET leaves == LeavesOf(row.entries, <<>>)
                 IN \A i \in 1..Len(leaves) :
                        \E k \in 1..Len(out) : /\ out[k].key = leaves[i].path
                                               /\ out[k].value = ColumnOf(leaves[i].value)

\* C22: every leaf of a record is in the output under the dot-joined path
\* of its keys, an array as its JSON text, unless a later leaf has the same
\* path (a key that holds a dot), which then takes its place; a row that is
\* no record yields exactly one column named value.
C22_LastLeafUnderEachPath ==
    flatResult # <<>> =>
        LET row == flatRow[1]
            out == flatResult[1]
        IN /\ OneColumnForEachPath(row, out)
           /\ row.t = "object" =>
                 LET leaves == LeavesOf(row.entries, <<>>)
                 IN \A i \in 1..Len(leaves) :
                        (\A j \in (i + 1)..Len(leaves) : leaves[j].path # leaves[i].path)
                            => \E k \in 1..Len(out) :
                                   /\ out[k].key = leaves[i].path
                                   /\ out[k].value = ColumnOf(leaves[i].value)

\* A record with a leaf two levels down, an array beside it, and a second
\* field, has been flattened
C22_Witness ==
    /\ flatResult # <<>>
    /\ flatRow[1].t = "object"
    /\ \E k \in 1..Len(flatResult[1]) :
          /\ flatResult[1][k].key = <<"b", ".", "c", ".", "a">>
          /\ flatResult[1][k].value = Num(3)
    /\ \E k \in 1..Len(flatResult[1]) :
          /\ flatResult[1][k].key = <<"b", ".", "a">>
          /\ flatResult[1][k].value = Str(<<"[", "]">>)
    /\ Len(flatResult[1]) = 3

(***************************************************************************)
(* verifyInitData (src/api/_lib/telegram.js) (SpecVerify)                  *)
(*                                                                         *)
(* initData is kept as the list of the decoded [key, value] pairs of the   *)
(* query string, the empty string having none.  A digest is kept as the    *)
(* text of what was digested under which key, so that two digests are      *)
(* equal exactly when key and message are.                                 *)
(***************************************************************************)
DefaultMaxAgeSeconds == 86400

Param(key, value) == [key |-> key, value |-> Str(value)]
InitData(params) == [t |-> "string", n |-> 0, s |-> <<>>, params |-> params]

AuthDateKey == <<"a", "u", "t", "h", "_", "d", "a", "t", "e">>
HashKey == <<"h", "a", "s", "h">>
UserKey == <<"u", "s", "e", "r">>
QueryIdKey == <<"q", "u", "e", "r", "y", "_", "i", "d">>

\* function parseInitData(initData): data[key] = value for every pair in
\* order
RECURSIVE parseInitData(_, _)
parseInitData(params, data) ==
    IF params = <<>> THEN data
    ELSE parseInitData(Tail(params), MapSet(data, Head(params).key, Head(params).value))

\* Object.keys(data).filter((key) => key !== "hash")
keysButHash(data) ==
    LET Keep[k \in 0..Len(data)] ==
            IF k = 0 THEN <<>>
            ELSE IF data[k].key # HashKey THEN Append(Keep[k - 1], data[k].key)
            ELSE Keep[k - 1]
    IN Keep[Len(data)]

\* The pairs left in the order of the query string
buildDataCheckStringUnsorted(data) ==
    LET keys == keysButHash(data)
    IN Join([k \in 1..Len(keys) |-> keys[k] \o <<"=">> \o cellValue(data, keys[k]).s],
            <<"\n">>)

\* function buildDataCheckString(data)
buildDataCheckString(data) ==
    LET keys == StableSort(keysButHash(data), OrdinalLess)
    IN Join([k \in 1..Len(keys) |-> keys[k] \o <<"=">> \o cellValue(data, keys[k]).s],
            <<"\n">>)

\* crypto.createHmac("sha256", key).update(message).digest()
createHmac(key, message) == <<"hmac(">> \o key \o <<")(">> \o message \o <<")">>

\* The hash of a payload under a bot token, lines 29-37
computedHashOf(data, botToken) ==
    createHmac(createHmac(<<"WebAppData">>, botToken.s), buildDataCheckString(data))

\* JSON.parse of the user texts: {} , {"id":d} and a digit parse, any other
\* text throws
JsonParse(text) ==
    IF text = <<"{", "}">> THEN [threw |-> FALSE, value |-> [t |-> "user", id |-> Undefined]]
    ELSE IF /\ Len(text) = 5
            /\ <<text[1], text[2], text[3], text[5]>> = <<"{", "\"id\"", ":", "}">>
            /\ IsDigit(text[4])
    THEN [threw |-> FALSE, value |-> [t |-> "user", id |-> Num(DigitValue(text[4]))]]
    ELSE IF Len(text) = 1 /\ IsDigit(text[1])
    THEN [threw |-> FALSE, value |-> [t |-> "number", id |-> Undefined]]
    ELSE [threw |-> TRUE, value |-> Null]

Rejected(error) == [ok |-> FALSE, error |-> error, user |-> Null, data |-> <<>>]

\* if (maxAgeSeconds && authDate) { ... if (now - authDate > maxAgeSeconds) }
verifyIsExpired(data, maxAgeSeconds, now) ==
    LET authDate == Number(Or(cellValue(data, AuthDateKey), Num(0)))
    IN /\ Truthy(maxAgeSeconds) /\ Truthy(authDate)
       /\ now - authDate.n > maxAgeSeconds.n

\* function verifyInitData(initData, botToken, maxAgeSeconds = 86400), with
\* the second read from the clock as `now`
verifyInitData(initData, botToken, maxAgeArg, now) ==
    LET maxAgeSeconds == IF maxAgeArg = Undefined THEN Num(DefaultMaxAgeSeconds)
                         ELSE maxAgeArg
        given == initData.t = "string" /\ initData.params # <<>>
        data == parseInitData(initData.params, <<>>)
        user == cellValue(data, UserKey)
    IN IF ~given \/ ~Truthy(botToken) THEN Rejected("Missing initData or bot token.")
       ELSE IF ~Truthy(cellValue(data, HashKey)) THEN Rejected("Missing hash in initData.")
       ELSE IF computedHashOf(data, botToken) # cellValue(data, HashKey).s
       THEN Rejected("Invalid initData signature.")
       ELSE IF verifyIsExpired(data, maxAgeSeconds, now) THEN Rejected("initData expired.")
       ELSE IF ~Truthy(user) THEN [ok |-> TRUE, error |-> "", user |-> Null, data |-> data]
       ELSE IF JsonParse(user.s).threw THEN Rejected("Invalid user JSON.")
       ELSE [ok |-> TRUE, error |-> "", user |-> JsonParse(user.s).value, data |-> data]

\* The text Telegram signs: the pairs but hash, each key once with its last
\* value, in ascending order of the keys, joined by line feeds
SignedText(params) ==
    LET keys == {params[i].key : i \in 1..Len(params)} \ {HashKey}
        last(key) == params[Max({i \in 1..Len(params) : params[i].key = key})].value.s
        order == CHOOSE h \in [1..Cardinality(keys) -> keys] :
                     \A i, j \in 1..Cardinality(keys) : i < j => OrdinalLess(h[i], h[j])
    IN Join([k \in 1..Cardinality(keys) |-> order[k] \o <<"=">> \o last(order[k])], <<"\n">>)

\* The same pairs in the order of the query string
UnsortedText(params) ==
    Join([k \in 1..Len(params) |-> params[k].key \o <<"=">> \o params[k].value.s], <<"\n">>)

\* The hex digest of a text under the key made from a bot token
DigestOf(text, token) == createHmac(createHmac(<<"WebAppData">>, token), text)

BotTokens == {Undefined, Str(<<"T">>)}

\* The second of the call, and the auth_date values against it: none, 0,
\* one second too old for the default window, exactly at its edge,
\* a text that is no number, and an old one followed by a fresh one
VerifyNow == DefaultMaxAgeSeconds + 13600
AuthDateParams ==
    { <<>>, <<Param(AuthDateKey, <<"0">>)>>,
      <<Param(AuthDateKey, <<"1", "3", "5", "9", "9">>)>>,
      <<Param(AuthDateKey, <<"1", "3", "6", "0", "0">>)>>,
      <<Param(AuthDateKey, <<"a", "b", "c">>)>>,
      <<Param(AuthDateKey, <<"1", "3", "5", "9", "9">>),
        Param(AuthDateKey, <<"1", "3", "6", "0", "0">>)>> }

UserParams ==
    { <<>>, <<Param(UserKey, <<"{", "\"id\"", ":", "1", "}">>)>>,
      <<Param(UserKey, <<"{", "\"id\"", ":", "0", "}">>)>>,
      <<Param(UserKey, <<"{", "}">>)>>, <<Param(UserKey, <<"x">>)>> }

\* The pairs but hash: user and auth_date in either order, query_id
\* between them or absent
UnsignedParams ==
    {u \o q \o a : u \in UserParams, a \in AuthDateParams,
                   q \in {<<>>, <<Param(QueryIdKey, <<"A">>)>>}}
        \cup {a \o u : u \in UserParams, a \in AuthDateParams}

\* The hash that comes with them: none, the digest of the signed text under
\* the bot token T, the digest of the pairs as they stand, the digest under
\* another token
HashParams(params) ==
    { <<>>, <<Param(HashKey, DigestOf(SignedText(params), <<"T">>))>>,
      <<Param(HashKey, DigestOf(UnsortedText(params), <<"T">>))>>,
      <<Param(HashKey, DigestOf(SignedText(params), <<"U">>))>> }

VerifyInitDatas ==
    {Undefined} \cup UNION {{InitData(ps \o h) : h \in HashParams(ps)} : ps \in UnsignedParams}

MaxAgeArguments == {Undefined, Num(0), Num(60)}

VerifyInit ==
    /\ vfInitData \in {<<d>> : d \in VerifyInitDatas}
    /\ vfBotToken \in {<<b>> : b \in BotTokens}
    /\ vfMaxAge \in {<<a>> : a \in MaxAgeArguments}
    /\ vfNow = VerifyNow
    /\ vfResult = <<>>
    /\ CatalogIdle /\ NormIdle /\ PhotoIdle /\ LbdIdle
    /\ FeedbackIdle /\ WalkIdle /\ StoreIdle /\ CsvIdle /\ CellIdle /\ HandlerIdle /\ AppIdle

VerifyInitDataCall ==
    /\ vfResult = <<>>
    /\ vfResult' = <<verifyInitData(vfInitData[1], vfBotToken[1], vfMaxAge[1], vfNow)>>
    /\ UNCHANGED <<vfInitData, vfBotToken, vfMaxAge, vfNow, catalogVars, normVars,
                   photoVars, lbdVars, feedbackVars, walkVars, storeVars, csvVars,
                   cellVars, handlerVars, appVars>>

VerifyNext == VerifyInitDataCall

SpecVerify == VerifyInit /\ [][VerifyNext]_vars

(***************************************************************************)
(* Claims about verifyInitData, checked under SpecVerify                   *)
(***************************************************************************)
\* The values of a key in the payload, in order
ValuesOf(params, key) ==
    LET at == {i \in 1..Len(params) : params[i].key = key}
    IN [k \in 1..Cardinality(at) |->
           params[CHOOSE i \in at : Cardinality({j \in at : j <= i}) = k].value.s]

\* The payload carries the hash of its signed text under the bot token
HashMatches(params, token) ==
    /\ ValuesOf(params, HashKey) # <<>>
    /\ token.t = "string"
    /\ ValuesOf(params, HashKey)[Len(ValuesOf(params, HashKey))]
           = DigestOf(SignedText(params), token.s)

\* The window of the call
WindowOf(maxAgeArg) == IF maxAgeArg = Undefined THEN DefaultMaxAgeSeconds ELSE maxAgeArg.n

\* The auth_date of the payload is a number of seconds, and more than the
\* window before now
IsStale(params, maxAgeArg, now) ==
    LET dates == ValuesOf(params, AuthDateKey)
        text == dates[Len(dates)]
    IN /\ dates # <<>>
       /\ text # <<>> /\ \A i \in 1..Len(text) : IsDigit(text[i])
       /\ now - DecimalValue(text) > WindowOf(maxAgeArg)

\* C24 as stated: ok only with the hash of the signed text, and never for
\* a payload whose auth_date is more than maxAgeSeconds before now.
C24_OkOnlySignedAndFresh ==
    (vfResult # <<>> /\ vfResult[1].ok) =>
        /\ HashMatches(vfInitData[1].params, vfBotToken[1])
        /\ ~IsStale(vfInitData[1].params, vfMaxAge[1], vfNow)

\* C24: verifyInitData returns ok only when the supplied hash equals the
\* keyed digest of the newline-joined key=value pairs (all but hash, in
\* ascending order of the keys), and, maxAgeSeconds (default 86400) being
\* other than 0, never for a payload whose auth_date is a number other
\* than 0 and more than maxAgeSeconds before now.
C24_OkOnlySignedAndFreshUnlessZero ==
    (vfResult # <<>> /\ vfResult[1].ok) =>
        /\ HashMatches(vfInitData[1].params, vfBotToken[1])
        /\ IsStale(vfInitData[1].params, vfMaxAge[1], vfNow) =>
              \/ WindowOf(vfMaxAge[1]) = 0
              \/ DecimalValue(ValuesOf(vfInitData[1].params, AuthDateKey)
                     [Len(ValuesOf(vfInitData[1].params, AuthDateKey))]) = 0

\* A payload with the user before the auth_date, signed over the sorted
\* pairs and exactly maxAgeSeconds old under the default window, has been
\* accepted
C24_Witness ==
    /\ vfResult # <<>>
    /\ vfMaxAge[1] = Undefined
    /\ vfInitData[1] # Undefined
    /\ LET params == vfInitData[1].params
       IN /\ Len(params) = 3
          /\ params[1].key = UserKey /\ params[2].key = AuthDateKey
          /\ params[2].value.s = <<"1", "3", "6", "0", "0">>
          /\ vfResult[1].ok /\ vfResult[1].user.id = Num(1)

(***************************************************************************)
(* The handlers of src/api/questions.js: the CSV download of the questions *)
(* of a product, and the sending of a CSV to the chat (SpecHandler).  The  *)
(* store is the one of getValue: the KV settings, memoryStore and the      *)
(* backend.  A call of fetchLatestReviews or fetchAllQuestions is one      *)
(* entry of hdCalls, with the arguments it was given; each issues its      *)
(* first request to the seller API before anything is awaited.             *)
(***************************************************************************)
\* process.env.TELEGRAM_BOT_TOKEN
HandlerBotToken == Str(<<"T">>)

\* initData of the requests: none, one signed under another token, signed
\* ones without user, with user id 0 and with user id 1
HandlerInitDatas ==
    LET signed(ps, token) == InitData(ps \o <<Param(HashKey, DigestOf(SignedText(ps), token))>>)
        fresh == Param(AuthDateKey, <<"1", "3", "6", "0", "0">>)
        user(id) == Param(UserKey, <<"{", "\"id\"", ":", id, "}">>)
    IN { Undefined, signed(<<fresh, user("1")>>, <<"U">>), signed(<<fresh>>, <<"T">>),
         signed(<<fresh, user("0")>>, <<"T">>), signed(<<fresh, user("1")>>, <<"T">>) }

\* nmId of the requests: none, empty, 0, a text that is no number, a number
\* and a number as text
HandlerNmIds == {Undefined, Str(<<>>), Num(0), Str(<<"a", "b", "c">>), Num(7), Str(<<"7">>)}

HandlerTypes ==
    {Undefined, Str(<<"reviews">>), Str(<<"questions">>), Str(<<"other">>)}

HandlerInit ==
    /\ hdHandler \in {"questions", "send"}
    /\ hdMethod \in {"POST", "GET"}
    /\ hdBody \in [initData : HandlerInitDatas, nmId : HandlerNmIds, type : HandlerTypes]
    /\ hdPc = "start"
    /\ hdCalls = <<>>
    /\ hdResponse = <<>>
    /\ kvUrl \in BOOLEAN /\ kvToken = kvUrl
    /\ memoryStore \in {EmptyStore, [EmptyStore EXCEPT !["user:1:wb_token"] = "token2"]}
    /\ remoteStore \in {EmptyStore, [EmptyStore EXCEPT !["user:1:wb_token"] = "token1"]}
    /\ storeLog = <<>>
    /\ CatalogIdle /\ NormIdle /\ PhotoIdle /\ LbdIdle
    /\ FeedbackIdle /\ WalkIdle /\ CsvIdle /\ CellIdle /\ VerifyIdle /\ AppIdle

\* verifyInitData(initData, botToken) of the request
hdVerified == verifyInitData(hdBody.initData, HandlerBotToken, Undefined, VerifyNow)

\* `user:${user.id}:wb_token`
hdTokenKey ==
    IF hdVerified.user.id = Num(1) THEN "user:1:wb_token" ELSE "user:2:wb_token"

Respond(status, error) == [status |-> status, error |-> error]

KvCall(key) == [to |-> "kv", command |-> "GET", key |-> key, nmId |-> Undefined]
SellerCall(fn, nmId, take) == [to |-> "seller", command |-> fn, key |-> take, nmId |-> nmId]
TelegramCall == [to |-> "telegram", command |-> "sendDocument", key |-> "", nmId |-> Undefined]

\* if (!nmId)
nmIdMissing(nmId) == ~Truthy(nmId)

\* if (!type || !["reviews", "questions"].includes(type)), in the send
\* handler only
typeInvalid(handler, type) ==
    /\ handler = "send"
    /\ ~Truthy(type) \/ type \notin {Str(<<"reviews">>), Str(<<"questions">>)}

\* The call the handler awaits in its try block
sellerCallOf(handler, body) ==
    IF handler = "send" /\ body.type = Str(<<"reviews">>)
    THEN SellerCall("fetchLatestReviews", Number(body.nmId), ReviewsTakeCap)
    ELSE SellerCall("fetchAllQuestions", Number(body.nmId), SkipCeiling)

\* The handler from the value of getValue on: lines 27-37 and 76-93
afterToken(wbToken) ==
    IF wbToken = StoreNull \/ wbToken = ""
    THEN /\ hdResponse' = <<Respond(401, "WB token not set.")>>
         /\ hdPc' = "done"
         /\ UNCHANGED hdCalls
    ELSE IF nmIdMissing(hdBody.nmId)
    THEN /\ hdResponse' = <<Respond(400, "Missing nmId.")>>
         /\ hdPc' = "done"
         /\ UNCHANGED hdCalls
    ELSE IF typeInvalid(hdHandler, hdBody.type)
    THEN /\ hdResponse' = <<Respond(400, "Missing or invalid type.")>>
         /\ hdPc' = "done"
         /\ UNCHANGED hdCalls
    ELSE /\ hdCalls' = Append(hdCalls, sellerCallOf(hdHandler, hdBody))
         /\ hdPc' = "awaitSeller"
         /\ UNCHANGED hdResponse

\* The handler up to `await getValue(...)`: the method, verifyInitData and
\* the user; then getValue sends the GET command when the KV settings are
\* there, and reads memoryStore when they are not
HandlerStart ==
    /\ hdPc = "start"
    /\ IF hdMethod # "POST"
       THEN /\ hdResponse' = <<Respond(405, "Method not allowed")>>
            /\ hdPc' = "done"
            /\ UNCHANGED hdCalls
       ELSE IF ~hdVerified.ok
       THEN /\ hdResponse' = <<Respond(401, hdVerified.error)>>
            /\ hdPc' = "done"
            /\ UNCHANGED hdCalls
       ELSE IF hdVerified.user = Null \/ ~Truthy(hdVerified.user.id)
       THEN /\ hdResponse' = <<Respond(400, "Missing user in initData.")>>
            /\ hdPc' = "done"
            /\ UNCHANGED hdCalls
       ELSE IF hasKV
       THEN /\ hdCalls' = Append(hdCalls, KvCall(hdTokenKey))
            /\ hdPc' = "awaitKv"
            /\ UNCHANGED hdResponse
       ELSE afterToken(OrNull(memoryStore[hdTokenKey]))
    /\ UNCHANGED <<hdHandler, hdMethod, hdBody, storeVars, catalogVars, normVars,
                   photoVars, lbdVars, feedbackVars, walkVars, csvVars, cellVars,
                   verifyVars, appVars>>

\* The GET command settles: answered, getValue returns result ?? null;
\* failed, it returns memoryStore.get(key) ?? null
HandlerTokenRead ==
    /\ hdPc = "awaitKv"
    /\ \E answered \in BOOLEAN :
          afterToken(OrNull(IF answered THEN remoteStore[hdTokenKey]
                            ELSE memoryStore[hdTokenKey]))
    /\ UNCHANGED <<hdHandler, hdMethod, hdBody, storeVars, catalogVars, normVars,
                   photoVars, lbdVars, feedbackVars, walkVars, csvVars, cellVars,
                   verifyVars, appVars>>

\* The call to the seller API settles: rejected, the catch answers 500;
\* resolved, the questions handler sends the CSV and the send handler posts
\* it to Telegram
HandlerSellerSettles ==
    /\ hdPc = "awaitSeller"
    /\ \E resolved \in BOOLEAN :
          IF ~resolved
          THEN /\ hdResponse' = <<Respond(500, "WB API error")>>
               /\ hdPc' = "done"
               /\ UNCHANGED hdCalls
          ELSE IF hdHandler = "questions"
          THEN /\ hdResponse' = <<Respond(200, "")>>
               /\ hdPc' = "done"
               /\ UNCHANGED hdCalls
          ELSE /\ hdCalls' = Append(hdCalls, TelegramCall)
               /\ hdPc' = "awaitTelegram"
               /\ UNCHANGED hdResponse
    /\ UNCHANGED <<hdHandler, hdMethod, hdBody, storeVars, catalogVars, normVars,
                   photoVars, lbdVars, feedbackVars, walkVars, csvVars, cellVars,
                   verifyVars, appVars>>

\* sendDocument settles: payload.ok answers 200, anything else 500
HandlerTelegramSettles ==
    /\ hdPc = "awaitTelegram"
    /\ \E ok \in BOOLEAN :
          hdResponse' = <<IF ok THEN Respond(200, "") ELSE Respond(500, "Send error")>>
    /\ hdPc' = "done"
    /\ UNCHANGED <<hdHandler, hdMethod, hdBody, hdCalls, storeVars, catalogVars, normVars,
                   photoVars, lbdVars, feedbackVars, walkVars, csvVars, cellVars,
                   verifyVars, appVars>>

HandlerNext ==
    \/ HandlerStart
    \/ HandlerTokenRead
    \/ HandlerSellerSettles
    \/ HandlerTelegramSettles

SpecHandler == HandlerInit /\ [][HandlerNext]_vars

(***************************************************************************)
(* Claims about the handlers, checked under SpecHandler                    *)
(***************************************************************************)
\* The request has come past the method, verifyInitData and the user
PastVerification ==
    /\ hdMethod = "POST"
    /\ hdVerified.ok
    /\ hdVerified.user # Null /\ hdVerified.user.id = Num(1)

\* The user has no token in the store
CredentialAbsent ==
    /\ memoryStore[hdTokenKey] = Absent
    /\ remoteStore[hdTokenKey] = Absent

\* The product identifier is a positive number, or the decimal text of one
WellFormedNmId(nmId) ==
    \/ nmId.t = "number" /\ nmId.n > 0
    \/ /\ nmId.t = "string" /\ nmId.s # <<>>
       /\ \A i \in 1..Len(nmId.s) : IsDigit(nmId.s[i])

\* C23: a request without credential, or whose product identifier is absent
\* or malformed, is answered with an input error (400 or 401) and no
\* network call is issued for it: none to the seller API and none to the
\* key/value backend.
C23_RejectedBeforeAnyCall ==
    (PastVerification /\ (CredentialAbsent \/ ~WellFormedNmId(hdBody.nmId))) =>
        /\ hdCalls = <<>>
        /\ hdPc = "done" => hdResponse[1].status \in {400, 401}

\* With the KV settings present, a request without nmId has been answered
\* 400 after the GET command went to the backend
C23_Witness ==
    /\ PastVerification
    /\ hdBody.nmId = Undefined
    /\ hdPc = "done"
    /\ hdResponse[1] = Respond(400, "Missing nmId.")
    /\ hdCalls = <<KvCall("user:1:wb_token")>>

\* A product identifier that is no number has gone to the seller API as NaN
MalformedNmIdSent ==
    /\ PastVerification
    /\ hdBody.nmId = Str(<<"a", "b", "c">>)
    /\ Len(hdCalls) > 0
    /\ hdCalls[Len(hdCalls)] = SellerCall("fetchAllQuestions", NaN, SkipCeiling)

\* What does hold: no call goes to the seller API for a request without
\* token, with a falsy nmId, or (send handler) without a valid type
NoSellerCallForFalsy ==
    (\E i \in 1..Len(hdCalls) : hdCalls[i].to = "seller") =>
        /\ PastVerification
        /\ Truthy(hdBody.nmId)
        /\ hdHandler = "send" => hdBody.type \in {Str(<<"reviews">>), Str(<<"questions">>)}
        /\ memoryStore[hdTokenKey] # Absent \/ remoteStore[hdTokenKey] # Absent

(***************************************************************************)
(* selectPhotoUrl on a card with one collection of several entries         *)
(* (SpecRank)                                                              *)
(***************************************************************************)
MaxRankEntries == 2

\* The entries that may stand at a place of the collection; `place` marks
\* the place in every URL, the second character the string or the size key.
\* Strings with and without http; objects with isMain true, false and 1,
\* offering URLs under one or two size keys, one of them no http string.
RankEntries(place) ==
    { StringItem(UrlOf(<<place, "s">>)), StringItem(<<"x">>) }
        \cup UNION {
            { [ObjectItem EXCEPT !.isMain = main, !.tm = Str(UrlOf(<<place, "t">>))],
              [ObjectItem EXCEPT !.isMain = main, !.big = Str(UrlOf(<<place, "b">>))],
              [ObjectItem EXCEPT !.isMain = main, !.url = Str(UrlOf(<<place, "u">>)),
                                 !.c246x328 = Str(UrlOf(<<place, "2">>))],
              [ObjectItem EXCEPT !.isMain = main, !.c516x688 = Str(UrlOf(<<place, "5">>)),
                                 !.tm = Str(UrlOf(<<place, "t">>))],
              [ObjectItem EXCEPT !.isMain = main, !.big = Str(<<"x">>),
                                 !.url = Str(UrlOf(<<place, "u">>))] }
            : main \in {Bool(TRUE), Bool(FALSE), Num(1)} }

PlaceNames == <<"1", "2", "3", "4">>

RankCollections ==
    UNION {{items \in [1..n -> UNION {RankEntries(PlaceNames[k]) : k \in 1..n}] :
               \A k \in 1..n : items[k] \in RankEntries(PlaceNames[k])}
           : n \in 0..MaxRankEntries}

RankInit ==
    /\ photoCard \in {[EmptyCard EXCEPT !.photos = Array(items)] : items \in RankCollections}
    /\ photoResult = <<>>
    /\ CatalogIdle /\ NormIdle /\ LbdIdle /\ RestIdle

SpecRank == RankInit /\ [][PhotoNext]_vars

(***************************************************************************)
(* Claims about the ranking within a collection, checked under SpecRank    *)
(***************************************************************************)
\* The priority of the size keys, and of a plain string below them all
KeyPriority(key) ==
    CASE key = "big" -> 5 [] key = "c516x688" -> 4 [] key = "c246x328" -> 3
      [] key = "tm" -> 2 [] key = "url" -> 1 [] OTHER -> 0

\* The candidates of a collection: the http strings among its entries, and
\* the http strings under the size keys of its objects
RankCandidates(items) ==
    {[index |-> i, key |-> "string", main |-> FALSE, url |-> items[i].str] :
        i \in {k \in 1..Len(items) : items[k].kind = "string"
                                     /\ StartsWith(items[k].str, Http)}}
    \cup UNION {
        {[index |-> i, key |-> key, main |-> items[i].isMain = Bool(TRUE),
          url |-> items[i][key].s] :
            key \in {q \in SizeKeys : items[i][q].t = "string"
                                      /\ StartsWith(items[i][q].s, Http)}}
        : i \in {k \in 1..Len(items) : items[k].kind = "object"} }

\* c ranks above d: by the isMain flag, then the priority of the key, then
\* the earlier index
RanksAbove(c, d) ==
    \/ c.main /\ ~d.main
    \/ c.main = d.main /\ KeyPriority(c.key) > KeyPriority(d.key)
    \/ c.main = d.main /\ KeyPriority(c.key) = KeyPriority(d.key) /\ c.index < d.index

\* C25: within one collection the URL chosen is that of the candidate that
\* ranks above every other by (isMain, size key big > c516x688 > c246x328 >
\* tm > url, earlier index): an entry marked isMain beats every entry that
\* is not, whatever the keys; an object's URL beats a plain string of equal
\* flag; among candidates equal on flag and key the smaller index wins.
C25_RankWithinCollection ==
    photoResult # <<>> =>
        LET candidates == RankCandidates(photoCard.photos.items)
        IN IF candidates = {} THEN photoResult[1] = Null
           ELSE \E c \in candidates :
                    /\ photoResult[1] = Str(c.url)
                    /\ \A d \in candidates \ {c} : RanksAbove(c, d)

\* The second entry is marked isMain and offers only tm, the first is not
\* and offers big: the tm URL of the second has been chosen
C25_Witness ==
    /\ photoResult # <<>>
    /\ Len(photoCard.photos.items) = 2
    /\ photoCard.photos.items[1].isMain = Bool(FALSE)
    /\ photoCard.photos.items[1].big = Str(UrlOf(<<"1", "b">>))
    /\ photoCard.photos.items[2].isMain = Bool(TRUE)
    /\ photoResult[1] = Str(UrlOf(<<"2", "t">>))

(***************************************************************************)
(* fetchProductCards with every page request answered in the end           *)
(* (SpecCatalogFair), and the claim about its termination                  *)
(***************************************************************************)
\* Every awaited fetchJson settles: the response arrives or the fetch fails
SpecCatalogFair == SpecCatalog /\ WF_vars(CatalogNext)

\* ceil(a / b) for positive b
CeilDiv(a, b) == (a + b - 1) \div b

\* The page requests one call may issue: ceil(maxItems / min(pageSize, 100))
PageRequestCeiling == CeilDiv(maxItems, Min({pageSize, PageCap}))

\* At the bound of the model on the requests no response is left out: none
\* would send the loop round again
NoPageCutByBound ==
    (fpcPc = "await" /\ nRequests >= MaxRequests) =>
        \A pl \in Payloads : ~afterPage(pl).again

\* C26: with positive pageSize and maxItems, whatever the responses are,
\* fetchProductCards issues at most ceil(maxItems / min(pageSize, 100)) page
\* requests, and the call ends (it returns, or rejects when a fetch fails).
C26_PageCeilingThenEnds ==
    /\ [](maxItems > 0 => nRequests <= PageRequestCeiling /\ NoPageCutByBound)
    /\ (maxItems > 0) => <>(fpcPc \in {"returned", "thrown"})

\* The call has returned after as many requests as the ceiling allows, more
\* than one, every page full and with a cursor
C26_Witness ==
    /\ fpcPc = "returned"
    /\ maxItems > 0
    /\ nRequests = PageRequestCeiling
    /\ nRequests = MaxRequests

(***************************************************************************)
(* fetchAllQuestions with every request answered in the end                *)
(* (SpecWalkFair), and the claim about its termination                     *)
(***************************************************************************)
\* Every awaited fetchQuestions settles: the page arrives or the fetch fails
SpecWalkFair == SpecWalk /\ WF_vars(WalkNext)

\* C27: whatever the limit and the lengths of the pages (longer than asked
\* for included), no request of fetchAllQuestions has an offset above
\* 10000, no partition gets more than 11 requests, and the call ends (it
\* returns, or throws when a fetch fails).
C27_OffsetCeilingThenEnds ==
    /\ [](/\ wkRequest # <<>> => wkRequest[1].skip <= 10000
          /\ wkIssued.unanswered <= 11
          /\ wkIssued.answered <= 11)
    /\ <>(wkPc \in {"returned", "thrown"})

\* The call has returned after eleven requests of the unanswered partition
\* and several of the answered one
C27_Witness ==
    /\ wkPc = "returned"
    /\ wkIssued.unanswered = 11
    /\ wkIssued.answered >= 2

(***************************************************************************)
(* Claim about the order in which the two fetches of fetchLatestReviews    *)
(* settle, checked under SpecFeedback                                      *)
(***************************************************************************)
\* The batch of the unanswered and of the answered request, whichever came
\* first
UnansweredBatch == fbOutcomes[CHOOSE i \in 1..2 : ~fbRequests[i].isAnswered].batch
AnsweredBatch == fbOutcomes[CHOOSE i \in 1..2 : fbRequests[i].isAnswered].batch

\* C28: the result of fetchLatestReviews is that of the unanswered batch
\* followed by the answered batch, in whichever order the two fetches
\* completed.
C28_MergeOrderFixed ==
    (fbCall = "reviews" /\ fbPc = "returned") =>
        /\ fbSettled \in {<<1, 2>>, <<2, 1>>}
        /\ fbResult[1] = latestByDate(UnansweredBatch \o AnsweredBatch, fbLimit)

\* The answered fetch completed first, the two batches hold different
\* versions of one review, and the call has returned the answered one
C28_Witness ==
    /\ fbCall = "reviews" /\ fbPc = "returned"
    /\ fbSettled = <<2, 1>>
    /\ fbLimit = 1
    /\ UnansweredBatch = <<[EmptyRow EXCEPT !.id = Num(1), !.createdDate = Jan02]>>
    /\ AnsweredBatch = <<[EmptyRow EXCEPT !.id = Num(1), !.createdDate = Jan01]>>
    /\ fbResult[1] = AnsweredBatch

(***************************************************************************)
(* Claim about deleteValue, checked under SpecStore                        *)
(***************************************************************************)
\* The key of the m-th call may have held a value when the call was made:
\* it was set before, or it is the key the backend may hold from the start
MayHoldBefore(m) ==
    \/ \E i \in 1..(m - 1) : storeLog[i].op = "set" /\ storeLog[i].key = storeLog[m].key
    \/ storeLog[m].key = "user:1:wb_token"

\* C29: once deleteValue(k) has returned true, and with no setValue(k, .)
\* since, getValue(k) returns absent, whatever the KV commands did; and
\* deleteValue returns true only if a value for k was removed.
C29_DeletedStaysAbsent ==
    /\ \A j, m \in 1..Len(storeLog) :
          ( /\ j < m
            /\ storeLog[j].op = "delete" /\ storeLog[j].result = TRUE
            /\ storeLog[m].op = "get" /\ storeLog[m].key = storeLog[j].key
            /\ \A i \in (j + 1)..(m - 1) :
                  ~(storeLog[i].op = "set" /\ storeLog[i].key = storeLog[j].key) )
          => storeLog[m].result = "null"
    /\ \A m \in 1..Len(storeLog) :
          (storeLog[m].op = "delete" /\ storeLog[m].result = TRUE) => MayHoldBefore(m)

\* A token saved while the SET command failed, deleted with the DEL command
\* answered (true is returned), read while the GET command failed: the
\* token comes back
C29_DeletedTokenRead ==
    /\ Len(storeLog) = 3
    /\ \A m \in 1..3 : storeLog[m].key = "user:2:wb_token"
    /\ storeLog[1].op = "set" /\ storeLog[1].value = "token1" /\ storeLog[1].remote = "failed"
    /\ storeLog[2].op = "delete" /\ storeLog[2].remote = "ok" /\ storeLog[2].result = TRUE
    /\ storeLog[3].op = "get" /\ storeLog[3].remote = "failed"
    /\ storeLog[3].result = "token1"

\* deleteValue has returned true for a key that nothing was ever stored
\* under
DeleteOfNothingReturnsTrue ==
    /\ Len(storeLog) = 1
    /\ storeLog[1].op = "delete" /\ storeLog[1].key = "user:2:wb_token"
    /\ storeLog[1].result = TRUE

\* Without the KV settings, and with every KV command failed, both halves
\* hold: the two stores never come apart
DeletedStaysAbsentInOneStore ==
    (~(kvUrl /\ kvToken) \/ \A m \in 1..Len(storeLog) : storeLog[m].remote = "failed")
        => C29_DeletedStaysAbsent

(***************************************************************************)
(* The App component (src/web/src/App.jsx): the operations that set        *)
(* loading (SpecApp).  Every button that starts one is disabled while      *)
(* loading is true, so one operation runs at a time.                       *)
(***************************************************************************)
MaxOperations == 3

\* How an awaited request may go: an ok response, an error response with a
\* JSON body that parses (401 or another status), an error response whose
\* body does not parse, a response declared JSON whose body does not
\* parse, a rejected fetch
Answers == {"ok", "error401", "error", "errorUnparseable", "okUnparseable", "rejected"}

\* apiPost rejects: fetch rejected, or response.json() threw (lines 4, 12)
apiPostRejects(answer) == answer \in {"rejected", "errorUnparseable", "okUnparseable"}

\* res.ok of what apiPost resolves to
apiPostOk(answer) == answer = "ok"

Ended(op, how) == [op |-> op, how |-> how]

AppInit ==
    /\ apInitData \in BOOLEAN
    /\ apPc = "mount"
    /\ apOp = "none"
    /\ loading = FALSE
    /\ needsToken = FALSE
    /\ selected = FALSE
    /\ apEnded = <<>>
    /\ CatalogIdle /\ NormIdle /\ PhotoIdle /\ LbdIdle
    /\ FeedbackIdle /\ WalkIdle /\ StoreIdle /\ CsvIdle /\ CellIdle /\ VerifyIdle /\ HandlerIdle

\* useEffect(() => { ... run(); }, [initData]): without initData an error
\* is shown; with it run() sets loading and awaits the auth request
AppMount ==
    /\ apPc = "mount"
    /\ IF apInitData
       THEN /\ loading' = TRUE
            /\ apOp' = "initial"
            /\ apPc' = "awaitAuth"
       ELSE /\ apPc' = "idle"
            /\ UNCHANGED <<loading, apOp>>
    /\ UNCHANGED <<apInitData, needsToken, selected, apEnded, catalogVars, normVars,
                   photoVars, lbdVars, feedbackVars, walkVars, storeVars, csvVars,
                   cellVars, verifyVars, handlerVars>>

\* setSelected(product) and setSelected(null), where the catalog is shown
AppSetSelected ==
    /\ apPc # "mount"
    /\ ~needsToken
    /\ selected' = ~selected
    /\ UNCHANGED <<apInitData, apPc, apOp, loading, needsToken, apEnded, catalogVars,
                   normVars, photoVars, lbdVars, feedbackVars, walkVars, storeVars,
                   csvVars, cellVars, verifyVars, handlerVars>>

\* A button is pressed, which takes loading to be false: handleSaveToken
\* (shown with needsToken; an empty field only shows an error),
\* handleDownload and handleSendToChat (shown with a product selected).
\* Each sets loading and awaits its request.
AppStartOperation ==
    /\ apPc = "idle"
    /\ ~loading
    /\ Len(apEnded) < MaxOperations
    /\ \E op \in {"saveToken", "download", "send"}, fieldEmpty \in BOOLEAN :
          /\ op = "saveToken" => needsToken
          /\ op \in {"download", "send"} => ~needsToken /\ selected
          /\ IF op = "saveToken" /\ fieldEmpty
             THEN UNCHANGED <<apOp, apPc, loading>>
             ELSE /\ loading' = TRUE
                  /\ apOp' = op
                  /\ apPc' = CASE op = "saveToken" -> "awaitSave"
                               [] op = "download" -> "awaitDownload"
                               [] OTHER -> "awaitSend"
    /\ UNCHANGED <<apInitData, needsToken, selected, apEnded, catalogVars, normVars,
                   photoVars, lbdVars, feedbackVars, walkVars, storeVars, csvVars,
                   cellVars, verifyVars, handlerVars>>

\* An awaited apiPost settles.  When it rejects, the operation's async
\* function rejects at its await and nothing after it runs.  After the auth
\* and the save request, an ok response goes on to loadProducts; an error
\* response, and the end of loadProducts and of the send request, call
\* setLoading(false).
AppApiPostSettles ==
    /\ apPc \in {"awaitAuth", "awaitSave", "awaitProducts", "awaitSend"}
    /\ \E answer \in Answers :
          IF apiPostRejects(answer)
          THEN /\ apEnded' = Append(apEnded, Ended(apOp, "rejected"))
               /\ apPc' = "idle"
               /\ apOp' = "none"
               /\ UNCHANGED <<loading, needsToken>>
          ELSE IF apPc \in {"awaitAuth", "awaitSave"} /\ apiPostOk(answer)
          THEN /\ apPc' = "awaitProducts"
               /\ UNCHANGED <<apOp, loading, needsToken, apEnded>>
          ELSE /\ loading' = FALSE
               /\ needsToken' = IF apPc # "awaitProducts" THEN needsToken
                                ELSE IF apiPostOk(answer) THEN FALSE
                                ELSE IF answer = "error401" THEN TRUE
                                ELSE needsToken
               /\ apEnded' = Append(apEnded, Ended(apOp, "returned"))
               /\ apPc' = "idle"
               /\ apOp' = "none"
    /\ UNCHANGED <<apInitData, selected, catalogVars, normVars, photoVars, lbdVars,
                   feedbackVars, walkVars, storeVars, csvVars, cellVars, verifyVars,
                   handlerVars>>

\* The fetch of handleDownload settles, and the body is read: of an error
\* response with response.json(), of an ok response with response.blob().
\* A rejected fetch and a body that does not parse reject the function;
\* otherwise setLoading(false) is called.
AppDownloadSettles ==
    /\ apPc = "awaitDownload"
    /\ \E answer \in Answers \ {"okUnparseable"} :
          IF answer \in {"rejected", "errorUnparseable"}
          THEN /\ apEnded' = Append(apEnded, Ended(apOp, "rejected"))
               /\ UNCHANGED loading
          ELSE /\ apEnded' = Append(apEnded, Ended(apOp, "returned"))
               /\ loading' = FALSE
    /\ apPc' = "idle"
    /\ apOp' = "none"
    /\ UNCHANGED <<apInitData, needsToken, selected, catalogVars, normVars, photoVars,
                   lbdVars, feedbackVars, walkVars, storeVars, csvVars, cellVars,
                   verifyVars, handlerVars>>

AppNext ==
    \/ AppMount
    \/ AppSetSelected
    \/ AppStartOperation
    \/ AppApiPostSettles
    \/ AppDownloadSettles

SpecApp == AppInit /\ [][AppNext]_vars

(***************************************************************************)
(* Claim about loading, checked under SpecApp                              *)
(***************************************************************************)
\* C30: every operation that set loading to true has set it back to false
\* when it has ended, in success, in an error response, in a rejected
\* request or in a body that does not parse: with no operation running,
\* loading is false.
C30_LoadingResetWhenEnded ==
    (apPc = "idle" /\ apOp = "none") => loading = FALSE

\* The download of a product ended in a rejected fetch or a body that does
\* not parse, and loading is left true with no operation running
C30_LoadingStuck ==
    /\ apPc = "idle" /\ apOp = "none"
    /\ apEnded # <<>>
    /\ apEnded[Len(apEnded)] = Ended("download", "rejected")
    /\ loading = TRUE

\* What does hold: loading is left true only by an operation that ended in
\* a rejection, and every operation that returned has set it to false
LoadingStuckOnlyByRejection ==
    (apPc = "idle" /\ apOp = "none" /\ loading) =>
        /\ apEnded # <<>>
        /\ apEnded[Len(apEnded)].how = "rejected"

(***************************************************************************)
(* toCsv on rows whose keys hold a comma, a quote or a line break          *)
(* (SpecCsvKeys)                                                           *)
(***************************************************************************)
\* The rows of CsvInputRows, and rows with a key that holds a comma, a key
\* that starts with a quote next to a value that is quoted, and a key that
\* holds a line break
CsvKeyRows ==
    CsvInputRows \cup
    { CsvObject(<<Entry(<<"a", ",", "b">>, Num(1))>>),
      CsvObject(<<Entry(<<"\"", "q">>, Num(2)), Entry(<<"c">>, Str(<<"x", ",", "y">>))>>),
      CsvObject(<<Entry(<<"x", "\n", "y">>, Num(3))>>) }

CsvKeysInit ==
    /\ csvRows \in SeqsUpTo(CsvKeyRows, MaxCsvRows)
    /\ csvResult = <<>>
    /\ CatalogIdle /\ NormIdle /\ PhotoIdle /\ LbdIdle
    /\ FeedbackIdle /\ WalkIdle /\ StoreIdle /\ CellIdle /\ VerifyIdle /\ HandlerIdle /\ AppIdle

SpecCsvKeys == CsvKeysInit /\ [][CsvNext]_vars

(***************************************************************************)
(* Claim about the records of the output, checked under SpecCsvKeys        *)
(***************************************************************************)
\* The records of a CSV text under the quoting rules of csvEscape: a field
\* that starts with a quote runs to its closing quote, a doubled quote in
\* it standing for one quote; outside such a field a comma ends the field
\* and a line break ends the record.
RECURSIVE ParseCsv(_, _, _, _, _)
ParseCsv(cs, mode, field, record, records) ==
    IF cs = <<>> THEN Append(records, Append(record, field))
    ELSE LET c == Head(cs)
             rest == Tail(cs)
         IN IF mode = "quoted"
            THEN IF c # "\""
                 THEN ParseCsv(rest, "quoted", Append(field, c), record, records)
                 ELSE IF rest # <<>> /\ Head(rest) = "\""
                 THEN ParseCsv(Tail(rest), "quoted", Append(field, "\""), record, records)
                 ELSE ParseCsv(rest, "plain", field, record, records)
            ELSE IF c = ","
            THEN ParseCsv(rest, "start", <<>>, Append(record, field), records)
            ELSE IF c = "\n"
            THEN ParseCsv(rest, "start", <<>>, <<>>, Append(records, Append(record, field)))
            ELSE IF c = "\"" /\ mode = "start"
            THEN ParseCsv(rest, "quoted", field, record, records)
            ELSE ParseCsv(rest, "plain", Append(field, c), record, records)

\* The records of the output after the byte-order mark
RecordsOf(text) == ParseCsv(Tail(text), "start", <<>>, <<>>, <<>>)

\* The flattened paths of all rows
AllPaths(rs) == UNION {PathsOf(rs[k]) : k \in 1..Len(rs)}

\* Every record has as many fields as the header record, and the fields of
\* the header record are the flattened paths (one empty field where there
\* is no path)
RecordsMatchHeader ==
    LET records == RecordsOf(csvResult[1])
        paths == AllPaths(csvRows)
    IN /\ \A r \in 1..Len(records) : Len(records[r]) = Len(records[1])
       /\ {records[1][j] : j \in 1..Len(records[1])} = IF paths = {} THEN {<<>>} ELSE paths

\* C31: for every input of toCsv, rows whose keys hold a comma, a quote or
\* a line break included, every record of the output read under the same
\* quoting rules has as many fields as the header record, and the header
\* record gives back the set of the flattened paths.
C31_RecordsMatchHeader ==
    csvResult # <<>> => RecordsMatchHeader

\* The one row {"a,b": 1}: the header record has two fields, a and b, and
\* the record of the row has one
C31_HeaderSplit ==
    /\ csvResult # <<>>
    /\ csvRows = <<CsvObject(<<Entry(<<"a", ",", "b">>, Num(1))>>)>>
    /\ csvResult[1] = <<"BOM", "a", ",", "b", "\n", "1">>
    /\ RecordsOf(csvResult[1]) = << << <<"a">>, <<"b">> >>, << <<"1">> >> >>

\* What does hold: the records match the header when no path holds a
\* comma, a quote, a line break or a carriage return
PlainPathsRecordsMatchHeader ==
    (/\ csvResult # <<>>
     /\ \A p \in AllPaths(csvRows) : \A i \in 1..Len(p) : p[i] \notin {",", "\"", "\n", "\r"})
        => RecordsMatchHeader

\* Rows with a quoted value under plain paths
PlainPathsQuotedValue ==
    /\ csvResult # <<>>
    /\ Len(csvRows) = 2
    /\ AllPaths(csvRows) = {<<"a">>, <<"b", ".", "c">>, <<"c">>, <<"B">>}

=============================================================================
